---------------------------- MODULE Spec2Model ----------------------------
(***************************************************************************)
(* A model of LinVAM's voice-command engine (linvam/profileexecutor.py):   *)
(* the expansion of command names into phrases, the command table, the     *)
(* listening controller and the command runner; and of the dialog that     *)
(* edits a sound action (linvam/soundactioneditwnd.py).                    *)
(*                                                                         *)
(* A Python string is a sequence of one-character strings.  An optional    *)
(* value (None or a value) is a sequence of length 0 or 1.                 *)
(***************************************************************************)
EXTENDS Integers, Sequences, FiniteSets, TLC

VARIABLES
    text,        \* _expand_optional_brackets: the argument
    variations,  \* _expand_optional_brackets: the returned list
    epc,         \* "init" before the call, "done" after it
    m_profile,              \* the active profile: <<>> is None, <<p>> a profile
    commands_list,          \* the command table: the phrases, longest first
    listening,              \* self.listening
    m_stream,               \* self.m_stream: 0 is None, else a stream's id
    streams,                \* each capture stream: "unused", "idle" (open), "active"
    ptl_key,                \* self.ptl_key: <<>> is None, else <<"keyboard">> or <<"mouse">>
    ptl_keyboard_listener,  \* TRUE while the keyboard hook is installed
    ptl_mouse_listener,     \* TRUE while the mouse hook is installed
    recognizer,             \* <<>> is None, else <<[cap, grammar]>>
    grammar_supported,      \* self.grammar_supported
    ydotoold,               \* self.ydotoold: <<>> is None, else <<"pid">>
    last,                   \* history: the last handler called and its argument
    prior,                  \* history: the listening state before that call, and
                            \* whether the stream was capturing
    fx,                     \* history: the device and engine calls that call made
    language,               \* history: the outcome of the last set_language call:
                            \* "none" before the first, "supported", "unsupported"
    cstack,         \* each thread's stack of _do_command and run() activations
    wstate,         \* each CommandThread: "unused", "running" or "finished"
    m_stop,         \* each CommandThread's m_stop flag
    m_cmd_threads,  \* self.m_cmd_threads: the pairs <<key, thread>>
    log,            \* history: the actions each thread has executed, in order
    stopAt,         \* history: where each thread was when stop() was called on it
    spawned,        \* history: the command and phrase each thread was created for
    effects,        \* history: the device and process calls of each thread's actions
    detected,       \* history: the last check_commands call and what it detected
    dispatches,     \* the number of check_commands calls so far
    stop_pc,        \* each thread inside _stop_command: the statement it is at
    swap,           \* set_profile between `commands_list = []` and the sort:
                    \* <<>> when no call is there, else <<[p_profile, was_listening]>>
    hotkey_pc,      \* the hook's thread inside a key event handler: <<>> when it
                    \* is in none, else <<"start">> or <<"drain">>
    wnd             \* the SoundActionEditWnd dialog: <<>> when none is open

expandVars == <<text, variations, epc>>

tableVars == <<m_profile, commands_list>>

listenVars == <<listening, m_stream, streams, ptl_key, ptl_keyboard_listener,
                ptl_mouse_listener, recognizer, grammar_supported, ydotoold>>

historyVars == <<last, prior, fx, language>>

runnerVars == <<cstack, wstate, m_stop, m_cmd_threads, log, stopAt, spawned,
                effects, detected, dispatches>>

\* The calls in progress that the model follows statement by statement.
callVars == <<stop_pc, swap, hotkey_pc>>

vars == <<expandVars, tableVars, listenVars, historyVars, runnerVars, callVars,
          wnd>>

(***************************************************************************)
(* Strings                                                                 *)
(***************************************************************************)
IsSpace(c) == c = " "

LowerChar(c) == IF c = "A" THEN "a" ELSE IF c = "B" THEN "b" ELSE c

\* str.lower()
Lower(s) == [i \in 1..Len(s) |-> LowerChar(s[i])]

RECURSIVE LStrip(_)
LStrip(s) == IF s # <<>> /\ IsSpace(Head(s)) THEN LStrip(Tail(s)) ELSE s

RECURSIVE RStrip(_)
RStrip(s) ==
    IF s # <<>> /\ IsSpace(s[Len(s)]) THEN RStrip(SubSeq(s, 1, Len(s) - 1)) ELSE s

\* str.strip()
Strip(s) == RStrip(LStrip(s))

\* The parts of s between the separator positions seps, empty parts kept.
RECURSIVE SplitAt(_, _, _, _)
SplitAt(s, seps, i, cur) ==
    IF i > Len(s) THEN <<cur>>
    ELSE IF i \in seps THEN <<cur>> \o SplitAt(s, seps, i + 1, <<>>)
    ELSE SplitAt(s, seps, i + 1, Append(cur, s[i]))

\* str.split(','): every comma separates.
SplitComma(s) == SplitAt(s, {i \in 1..Len(s) : s[i] = ","}, 1, <<>>)

\* str.split(): the maximal runs of non-whitespace.
SplitWords(s) ==
    LET parts == SplitAt(s, {i \in 1..Len(s) : IsSpace(s[i])}, 1, <<>>)
    IN  SelectSeq(parts, LAMBDA p : p # <<>>)

\* ' '.join(words)
RECURSIVE JoinSpace(_)
JoinSpace(words) ==
    IF words = <<>> THEN <<>>
    ELSE IF Len(words) = 1 THEN words[1]
    ELSE words[1] \o <<" ">> \o JoinSpace(Tail(words))

\* ''.join(parts)
RECURSIVE Concat(_)
Concat(parts) == IF parts = <<>> THEN <<>> ELSE Head(parts) \o Concat(Tail(parts))

\* ' '.join(variation.split())
NormalizeSpace(s) == JoinSpace(SplitWords(s))

\* The strings of at most n characters, each among chars.
StringsOver(chars, n) == UNION {[1..k -> chars] : k \in 0..n}

\* `sub in s`
IsSubstring(sub, s) ==
    \E i \in 0..(Len(s) - Len(sub)) : SubSeq(s, i + 1, i + Len(sub)) = sub

(***************************************************************************)
(* COMMAND_NAME_COMMA_SPLIT_REGGEX = ",(?![^\[]*\])": a comma separates    *)
(* unless a "]" follows it with no "[" in between.                         *)
(***************************************************************************)
ClosesBracketAfter(s, i) ==
    \E j \in (i + 1)..Len(s) :
        /\ s[j] = "]"
        /\ \A k \in (i + 1)..(j - 1) : s[k] # "["

CommaSplitPoints(s) ==
    {i \in 1..Len(s) : s[i] = "," /\ ~ClosesBracketAfter(s, i)}

\* re.split(COMMAND_NAME_COMMA_SPLIT_REGGEX, s)
SplitName(s) == SplitAt(s, CommaSplitPoints(s), 1, <<>>)

(***************************************************************************)
(* _expand_optional_brackets                                               *)
(***************************************************************************)
\* The position of the first "]" at or after i, 0 when there is none.
RECURSIVE FirstClose(_, _)
FirstClose(s, i) ==
    IF i > Len(s) THEN 0 ELSE IF s[i] = "]" THEN i ELSE FirstClose(s, i + 1)

\* re.compile(r'\[([^\]]+)\]').finditer(text): the spans <<start, end>> of
\* the leftmost non-overlapping matches from position i on.
RECURSIVE BracketMatches(_, _)
BracketMatches(s, i) ==
    IF i > Len(s) THEN <<>>
    ELSE IF s[i] = "[" /\ FirstClose(s, i + 1) > i + 1
         THEN <<(<<i, FirstClose(s, i + 1)>>)>>
                  \o BracketMatches(s, FirstClose(s, i + 1) + 1)
         ELSE BracketMatches(s, i + 1)

\* alternatives = [alt.strip() for alt in bracket_content.split(',')]
Alternatives(content) ==
    LET alts == SplitComma(content)
    IN  [k \in 1..Len(alts) |-> Strip(alts[k])]

FixedSeg(t) == [kind |-> "fixed", text |-> t, alts |-> <<>>]
OptionalSeg(a) == [kind |-> "optional", text |-> <<>>, alts |-> a]

\* The loop over matches: the segments from match number m on.
RECURSIVE SegmentsFrom(_, _, _, _)
SegmentsFrom(s, matches, m, last_end) ==
    IF m > Len(matches)
    THEN IF last_end < Len(s)
         THEN <<FixedSeg(SubSeq(s, last_end + 1, Len(s)))>>
         ELSE <<>>
    ELSE LET start == matches[m][1]
             end   == matches[m][2]
             before == IF start - 1 > last_end
                       THEN <<FixedSeg(SubSeq(s, last_end + 1, start - 1))>>
                       ELSE <<>>
             opt == OptionalSeg(Alternatives(SubSeq(s, start + 1, end - 1)))
         IN  before \o <<opt>> \o SegmentsFrom(s, matches, m + 1, end)

Segments(s) == SegmentsFrom(s, BracketMatches(s, 1), 1, 0)

\* choices = [None] + alternatives; None is <<>>, an alternative a is <<a>>.
Choices(alts) == <<(<<>>)>> \o [k \in 1..Len(alts) |-> <<alts[k]>>]

ChoiceLists(segs) ==
    LET opts == SelectSeq(segs, LAMBDA g : g.kind = "optional")
    IN  [k \in 1..Len(opts) |-> Choices(opts[k].alts)]

\* itertools.product(*lists): the first list varies slowest.
RECURSIVE PrefixEach(_, _)
PrefixEach(choices, rest) ==
    IF choices = <<>> THEN <<>>
    ELSE [k \in 1..Len(rest) |-> <<Head(choices)>> \o rest[k]]
             \o PrefixEach(Tail(choices), rest)

RECURSIVE Product(_)
Product(lists) ==
    IF lists = <<>> THEN <<(<<>>)>>
    ELSE PrefixEach(Head(lists), Product(Tail(lists)))

\* The inner loop: the parts of one combination.
RECURSIVE PartsOf(_, _, _)
PartsOf(segs, combination, optional_idx) ==
    IF segs = <<>> THEN <<>>
    ELSE IF Head(segs).kind = "fixed"
         THEN <<Head(segs).text>> \o PartsOf(Tail(segs), combination, optional_idx)
         ELSE combination[optional_idx]
                  \o PartsOf(Tail(segs), combination, optional_idx + 1)

Variation(segs, combination) == NormalizeSpace(Concat(PartsOf(segs, combination, 1)))

_expand_optional_brackets(s) ==
    IF BracketMatches(s, 1) = <<>> THEN <<s>>
    ELSE LET segs == Segments(s)
             combos == Product(ChoiceLists(segs))
             all == [k \in 1..Len(combos) |-> Variation(segs, combos[k])]
             nonEmpty == SelectSeq(all, LAMBDA v : v # <<>>)
         IN  IF nonEmpty # <<>> THEN nonEmpty ELSE <<s>>

(***************************************************************************)
(* The command table (set_profile) and the lookups on it                   *)
(***************************************************************************)
\* The inner loops of set_profile: the variations of each part, in order.
RECURSIVE ExpandParts(_)
ExpandParts(parts) ==
    IF parts = <<>> THEN <<>>
    ELSE _expand_optional_brackets(Strip(Head(parts))) \o ExpandParts(Tail(parts))

\* The phrases one command name registers:
\* re.split(..., w_command['name'].strip().lower()), each part expanded.
NamePhrases(name) == ExpandParts(SplitName(Lower(Strip(name))))

\* The loop over w_commands: commands_list before the sort.
RECURSIVE AllPhrases(_)
AllPhrases(commands) ==
    IF commands = <<>> THEN <<>>
    ELSE NamePhrases(Head(commands).name) \o AllPhrases(Tail(commands))

LongestLen(list) ==
    IF list = <<>> THEN 0
    ELSE CHOOSE n \in {Len(list[k]) : k \in 1..Len(list)} :
             \A k \in 1..Len(list) : Len(list[k]) <= n

RECURSIVE SortFrom(_, _)
SortFrom(list, n) ==
    IF n < 0 THEN <<>>
    ELSE SelectSeq(list, LAMBDA x : Len(x) = n) \o SortFrom(list, n - 1)

\* SortByLenDesc with the sort left out.
SortByLenDesc_Unsorted(list) == list

\* list.sort(key=len, reverse=True): by descending length, stable.
SortByLenDesc(list) == SortFrom(list, LongestLen(list))

\* The table set_profile builds from a profile.
BuildCommandsList(profile) == SortByLenDesc(AllPhrases(profile.commands))

\* check_commands: the index in the table of the first phrase contained in
\* result_string, 0 when there is none.
FirstMatch(table, result_string) ==
    IF \E k \in 1..Len(table) : IsSubstring(table[k], result_string)
    THEN CHOOSE k \in 1..Len(table) :
             /\ IsSubstring(table[k], result_string)
             /\ \A j \in 1..(k - 1) : ~IsSubstring(table[j], result_string)
    ELSE 0

HasVariation(command, cmd_name) ==
    LET vs == NamePhrases(command.name)
    IN  \E k \in 1..Len(vs) : Lower(vs[k]) = cmd_name

\* _get_command_for_executing: the index in the profile of the first command
\* one of whose variations is cmd_name, 0 for None.
_get_command_for_executing(profile, cmd_name) ==
    IF profile = <<>> THEN 0
    ELSE LET cs == profile[1].commands
         IN  IF \E c \in 1..Len(cs) : HasVariation(cs[c], cmd_name)
             THEN CHOOSE c \in 1..Len(cs) :
                      /\ HasVariation(cs[c], cmd_name)
                      /\ \A d \in 1..(c - 1) : ~HasVariation(cs[d], cmd_name)
             ELSE 0

(***************************************************************************)
(* The listening controller.  The executor's fields are gathered in a      *)
(* record S that each method maps to the record after the call; S.fx is    *)
(* the list of device and engine calls made, S.raised an escaped exception,*)
(* S.overflow a stream the model has no identifier left for.               *)
(***************************************************************************)
MaxStreams == 2

StreamIds == 1..MaxStreams

Executor ==
    [listening |-> listening, m_stream |-> m_stream, streams |-> streams,
     ptl_key |-> ptl_key, ptl_keyboard_listener |-> ptl_keyboard_listener,
     ptl_mouse_listener |-> ptl_mouse_listener, recognizer |-> recognizer,
     grammar_supported |-> grammar_supported, ydotoold |-> ydotoold,
     m_profile |-> m_profile,
     commands_list |-> commands_list, fx |-> <<>>, raised |-> FALSE,
     overflow |-> FALSE]

Did(S, call) == [S EXCEPT !.fx = Append(@, call)]

Raise(S, error) == [Did(S, error) EXCEPT !.raised = TRUE]

\* The exceptions the model follows.
Errors == {"AttributeError", "Exception", "KeyError"}

\* One of the calls raised.
Raised(calls) == \E k \in 1..Len(calls) : calls[k] \in Errors

\* The stream self.m_stream refers to is capturing (m_stream.active).
StreamActive(S) == S.m_stream # 0 /\ S.streams[S.m_stream] = "active"

\* _init_stream: a new RawInputStream replaces the reference; the stream
\* referred to before is neither stopped nor closed.
_init_stream(S) ==
    IF S.raised \/ S.recognizer = <<>> THEN S
    ELSE IF \A i \in StreamIds : S.streams[i] # "unused"
         THEN [S EXCEPT !.overflow = TRUE]
         ELSE LET id == CHOOSE i \in StreamIds :
                            /\ S.streams[i] = "unused"
                            /\ \A j \in 1..(i - 1) : S.streams[j] # "unused"
              IN  Did([S EXCEPT !.m_stream = id, !.streams[id] = "idle"],
                      "RawInputStream")

\* m_stream.start(): starting a stream that is running changes nothing.
StreamStart(S) ==
    IF S.raised THEN S
    ELSE IF S.m_stream = 0 THEN Raise(S, "AttributeError")
    ELSE Did([S EXCEPT !.streams[S.m_stream] = "active"], "stream.start")

\* m_stream.stop()
StreamStop(S) ==
    IF S.raised THEN S
    ELSE IF S.m_stream = 0 THEN Raise(S, "AttributeError")
    ELSE Did([S EXCEPT !.streams[S.m_stream] = "idle"], "stream.stop")

\* _start_stream
_start_stream(S) ==
    IF S.raised THEN S
    ELSE StreamStart(IF S.m_stream = 0 THEN _init_stream(S) ELSE S)

\* _stop_ptl_listener
_stop_ptl_listener(S) ==
    LET S1 == IF S.ptl_keyboard_listener
              THEN Did([S EXCEPT !.ptl_keyboard_listener = FALSE], "unhook.keyboard")
              ELSE S
    IN  IF S1.ptl_mouse_listener
        THEN Did([S1 EXCEPT !.ptl_mouse_listener = FALSE], "unhook.mouse")
        ELSE S1

\* _stop without the test `self.m_stream is not None`.
_stop_Unguarded(S) ==
    IF S.raised THEN S
    ELSE LET S1 == StreamStop(_stop_ptl_listener(S))
         IN  IF S1.raised THEN S1
             ELSE LET S2 == Did([S1 EXCEPT !.streams[S1.m_stream] = "unused"],
                                "stream.close")
                      S3 == [S2 EXCEPT !.m_stream = 0]
                  IN  IF S3.recognizer = <<>> THEN Raise(S3, "AttributeError")
                      ELSE [Did(S3, "FinalResult") EXCEPT !.listening = FALSE]

\* _stop
_stop(S) ==
    IF S.raised \/ S.m_stream = 0 THEN S
    ELSE LET S1 == StreamStop(_stop_ptl_listener(S))
             S2 == Did([S1 EXCEPT !.streams[S1.m_stream] = "unused"], "stream.close")
             S3 == [S2 EXCEPT !.m_stream = 0]
         IN  IF S3.recognizer = <<>> THEN Raise(S3, "AttributeError")
             ELSE [Did(S3, "FinalResult") EXCEPT !.listening = FALSE]

\* _apply_grammar_constraint without the except clauses: the exception of
\* SetGrammar leaves the function.
_apply_grammar_constraint_Fatal(S) ==
    IF S.raised \/ S.recognizer = <<>> \/ S.commands_list = <<>> THEN S
    ELSE IF S.recognizer[1].cap = "grammar"
         THEN Did([S EXCEPT !.recognizer[1].grammar = <<S.commands_list>>,
                            !.grammar_supported = TRUE], "SetGrammar")
    ELSE IF S.recognizer[1].cap = "raises"
         THEN Raise(Did(S, "SetGrammar"), "Exception")
    ELSE [S EXCEPT !.grammar_supported = FALSE]

\* _apply_grammar_constraint.  The engine's SetGrammar is there and works
\* (cap "grammar"), is missing (cap "nogrammar") or raises (cap "raises").
_apply_grammar_constraint(S) ==
    IF S.raised \/ S.recognizer = <<>> \/ S.commands_list = <<>> THEN S
    ELSE IF S.recognizer[1].cap = "grammar"
         THEN Did([S EXCEPT !.recognizer[1].grammar = <<S.commands_list>>,
                            !.grammar_supported = TRUE], "SetGrammar")
    ELSE IF S.recognizer[1].cap = "raises"
         THEN [Did(S, "SetGrammar") EXCEPT !.grammar_supported = FALSE]
    ELSE [S EXCEPT !.grammar_supported = FALSE]

\* _start_ptl
_start_ptl(S, hotkey) ==
    IF S.raised THEN S
    ELSE IF hotkey = "mouse"
         THEN Did([S EXCEPT !.ptl_key = <<hotkey>>, !.ptl_mouse_listener = TRUE],
                  "hook.mouse")
         ELSE Did([S EXCEPT !.ptl_key = <<hotkey>>, !.ptl_keyboard_listener = TRUE],
                  "hook.keyboard")

\* set_enable_listening(p_enable).  mode is what the configuration says at
\* the call: "continuous", or the push-to-listen hotkey's device.
set_enable_listening(S, p_enable, mode) ==
    IF S.raised \/ S.recognizer = <<>> THEN S
    ELSE IF ~S.listening /\ p_enable
         THEN IF mode # "continuous"
              THEN _start_ptl([_init_stream(S) EXCEPT !.listening = TRUE], mode)
              ELSE LET S1 == _start_stream(S)
                   IN  IF S1.raised THEN S1 ELSE [S1 EXCEPT !.listening = TRUE]
    ELSE IF S.listening /\ ~p_enable THEN _stop(S)
    ELSE S

\* reset_listening
reset_listening(S, mode) ==
    IF S.listening
    THEN set_enable_listening(set_enable_listening(S, FALSE, mode), TRUE, mode)
    ELSE S

\* ReplaceProfile without self.commands_list = []: the phrases of the
\* earlier build stay in the list.
ReplaceProfile_KeepsList(S, p_profile) == [S EXCEPT !.m_profile = p_profile]

\* ReplaceProfile without self.m_profile = p_profile: the table is built
\* for p_profile while the active profile stays the earlier one.
ReplaceProfile_KeepsProfile(S, p_profile) == [S EXCEPT !.commands_list = <<>>]

\* self.m_profile = p_profile; self.commands_list = []
ReplaceProfile(S, p_profile) ==
    [S EXCEPT !.m_profile = p_profile, !.commands_list = <<>>]

\* set_profile up to `self.commands_list = []`.
set_profile_clear(S, p_profile) ==
    LET S1 == IF S.listening THEN _stop(S) ELSE S
    IN  IF S1.raised THEN S1 ELSE ReplaceProfile(S1, p_profile)

\* set_profile from the loop over the commands on: the phrases are appended
\* to commands_list, which is then sorted; the grammar is applied and the
\* stream started when the executor was listening at the call.
set_profile_build(S, p_profile, was_listening) ==
    LET S3 == [S EXCEPT !.commands_list =
                   SortByLenDesc(@ \o AllPhrases(p_profile[1].commands))]
        S4 == _apply_grammar_constraint(S3)
    IN  IF was_listening THEN _start_stream(S4) ELSE S4

\* set_profile(p_profile)
set_profile(S, p_profile) ==
    LET S2 == set_profile_clear(S, p_profile)
    IN  IF S2.raised \/ p_profile = <<>> THEN S2
        ELSE set_profile_build(S2, p_profile, S.listening)

\* set_language(language): the language is supported or not; cap is the
\* grammar capability of the model loaded for it.
set_language(S, supported, cap) ==
    LET S1 == _stop(S)
    IN  IF S1.raised \/ ~supported THEN S1
        ELSE _apply_grammar_constraint(
                 Did([S1 EXCEPT !.recognizer = <<[cap |-> cap, grammar |-> <<>>]>>],
                     "KaldiRecognizer"))

\* _stop_ptl_stream after time.sleep(0.5): m_stream.stop() and Result().
_stop_ptl_stream_drained(S) ==
    LET S1 == StreamStop(S)
    IN  IF S1.raised THEN S1
        ELSE IF S1.recognizer = <<>> THEN Raise(S1, "AttributeError")
        ELSE Did(S1, "Result")

\* _stop_ptl_stream
_stop_ptl_stream(S) == _stop_ptl_stream_drained(Did(S, "sleep"))

\* _on_keyboard_key_event: a key event from the keyboard hook; matches says
\* whether it is a known key with the scan code of the push-to-listen hotkey.
\* _on_keyboard_key_event without the `not self.m_stream.active` test on a
\* key down:
_on_keyboard_key_event_NoActiveTest(S, event_type, matches) ==
    IF ~matches THEN S
    ELSE IF S.m_stream = 0 THEN Raise(S, "AttributeError")
    ELSE IF event_type = "down" THEN StreamStart(S)
    ELSE IF event_type = "up" /\ StreamActive(S) THEN _stop_ptl_stream(S)
    ELSE S

_on_keyboard_key_event(S, event_type, matches) ==
    IF ~matches THEN S
    ELSE IF S.m_stream = 0 THEN Raise(S, "AttributeError")
    ELSE IF event_type = "down" /\ ~StreamActive(S) THEN StreamStart(S)
    ELSE IF event_type = "up" /\ StreamActive(S) THEN _stop_ptl_stream(S)
    ELSE S

\* _on_mouse_key_event: an event from the mouse hook; matches says whether
\* it is a ButtonEvent of the push-to-listen button.
_on_mouse_key_event(S, event_type, matches) ==
    IF ~matches THEN S
    ELSE IF S.m_stream = 0 THEN Raise(S, "AttributeError")
    ELSE IF event_type = "down" /\ ~StreamActive(S) THEN StreamStart(S)
    ELSE IF event_type = "up" /\ StreamActive(S) THEN _stop_ptl_stream(S)
    ELSE S

\* The state of the listening controller (spec section 3, ListeningState).
ListeningStateOf(S) ==
    LET hooked == S.ptl_keyboard_listener \/ S.ptl_mouse_listener
        open == {i \in StreamIds : S.streams[i] # "unused"}
    IN  IF ~S.listening /\ S.m_stream = 0 /\ ~hooked /\ open = {}
             THEN "Stopped"
        ELSE IF S.listening /\ open = {S.m_stream} /\ StreamActive(S) /\ ~hooked
             THEN "Continuous"
        ELSE IF S.listening /\ open = {S.m_stream} /\ ~StreamActive(S) /\ hooked
             THEN "PushToTalkArmed"
        ELSE IF S.listening /\ open = {S.m_stream} /\ StreamActive(S) /\ hooked
             THEN "PushToTalkCapturing"
        ELSE "Inconsistent"

ListeningState == ListeningStateOf(Executor)

\* The executor's fields after a call, and the history of the call.
Commit(S, op, arg) ==
    /\ ~S.overflow
    /\ listening' = S.listening
    /\ m_stream' = S.m_stream
    /\ streams' = S.streams
    /\ ptl_key' = S.ptl_key
    /\ ptl_keyboard_listener' = S.ptl_keyboard_listener
    /\ ptl_mouse_listener' = S.ptl_mouse_listener
    /\ recognizer' = S.recognizer
    /\ grammar_supported' = S.grammar_supported
    /\ ydotoold' = S.ydotoold
    /\ m_profile' = S.m_profile
    /\ commands_list' = S.commands_list
    /\ last' = [op |-> op, arg |-> arg]
    /\ prior' = [state |-> ListeningState, active |-> StreamActive(Executor)]
    /\ fx' = S.fx
    /\ language' = IF op # "set_language" THEN language
                   ELSE IF arg = "unsupported" THEN "unsupported"
                   ELSE "supported"

(***************************************************************************)
(* The command runner.  Thread 0 is the thread that calls check_commands   *)
(* (the audio callback); threads 1..MaxWorkers are CommandThread objects.  *)
(* A thread's stack holds its activations: "run" is CommandThread.run,     *)
(* "sync" the loop of _do_command for a synchronous command, "register"    *)
(* the store into m_cmd_threads that follows w_cmd_thread.start().  In a   *)
(* loop activation pos = 0 is the while test and pos = k the k-th action   *)
(* of the for loop, about to be executed.                                  *)
(***************************************************************************)
MaxWorkers == 2

MaxDepth == 3

MaxDispatch == 2

Workers == 1..MaxWorkers

Threads == 0..MaxWorkers

Runner ==
    [cstack |-> cstack, wstate |-> wstate, m_stop |-> m_stop,
     m_cmd_threads |-> m_cmd_threads, log |-> log, stopAt |-> stopAt,
     spawned |-> spawned, effects |-> effects, overflow |-> FALSE]

Frame(kind, cmd, phrase, actions, w_repeat, worker) ==
    [kind |-> kind, cmd |-> cmd, phrase |-> phrase, actions |-> actions,
     w_repeat |-> w_repeat, pos |-> 0, worker |-> worker]

Max(a, b) == IF a >= b THEN a ELSE b

Push(R, t, f) ==
    IF Len(R.cstack[t]) >= MaxDepth THEN [R EXCEPT !.overflow = TRUE]
    ELSE [R EXCEPT !.cstack[t] = Append(@, f)]

\* The actions thread w has executed from its own sequence (in run()).
OwnCount(lg, w) == Len(SelectSeq(lg[w], LAMBDA e : e.depth = 1))

\* The actions of its current iteration that thread w has not started.
LeftInIteration(R, w) ==
    IF R.cstack[w] = <<>> \/ R.cstack[w][1].pos = 0 THEN 0
    ELSE Len(R.cstack[w][1].actions) - R.cstack[w][1].pos + 1

\* CommandThread.stop()
CommandThread_stop(R, w) ==
    [R EXCEPT !.m_stop[w] = TRUE,
              !.stopAt[w] = <<[ran |-> OwnCount(R.log, w),
                               left |-> LeftInIteration(R, w)]>>]

\* _stop_command matching a registered name contained in p_cmd_name, not
\* only one equal to it.
_stop_command_Containment(R, p_cmd_name) ==
    IF \E e \in R.m_cmd_threads : IsSubstring(e[1], p_cmd_name)
    THEN LET e == CHOOSE e \in R.m_cmd_threads : IsSubstring(e[1], p_cmd_name)
         IN  [CommandThread_stop(R, e[2]) EXCEPT !.m_cmd_threads = @ \ {e}]
    ELSE R

\* _stop_command
_stop_command(R, p_cmd_name) ==
    IF \E e \in R.m_cmd_threads : e[1] = p_cmd_name
    THEN LET e == CHOOSE e \in R.m_cmd_threads : e[1] = p_cmd_name
         IN  [CommandThread_stop(R, e[2]) EXCEPT !.m_cmd_threads = @ \ {e}]
    ELSE R

\* SyncRepeat without w_repeat = max(w_repeat, 1).
SyncRepeat_Unclamped(w_command) == w_command.repeat

\* The repeat count the synchronous loop of _do_command starts from.
SyncRepeat(w_command) == Max(w_command.repeat, 1)

\* The repeat count CommandThread.run starts from.
AsyncRepeat(w_command) == w_command.repeat

\* The key _do_command stores the started thread under.
RegistryKey(w_command, p_cmd_name) == p_cmd_name

\* _do_command called on thread t, up to the first loop test (synchronous)
\* or up to w_cmd_thread.start() (asynchronous).
_do_command(R, t, profile, p_cmd_name) ==
    LET c == _get_command_for_executing(profile, p_cmd_name)
    IN  IF c = 0 THEN R
        ELSE LET w_command == profile[1].commands[c]
             IN  IF ~w_command.async
                 THEN Push(R, t, Frame("sync", c, p_cmd_name, w_command.actions,
                                       SyncRepeat(w_command), 0))
                 ELSE IF \A w \in Workers : R.wstate[w] # "unused"
                      THEN [R EXCEPT !.overflow = TRUE]
                 ELSE LET w == CHOOSE w \in Workers :
                                   /\ R.wstate[w] = "unused"
                                   /\ \A v \in 1..(w - 1) : R.wstate[v] # "unused"
                          R1 == [R EXCEPT
                                   !.wstate[w] = "running",
                                   !.cstack[w] = <<Frame("run", c, p_cmd_name,
                                                         w_command.actions,
                                                         AsyncRepeat(w_command), w)>>,
                                   !.spawned[w] = <<[cmd |-> c, phrase |-> p_cmd_name]>>]
                      IN  Push(R1, t, Frame("register", c,
                                            RegistryKey(w_command, p_cmd_name),
                                            <<>>, 0, w))

\* self.m_cmd_threads[p_cmd_name] = w_cmd_thread
Register(R, key, w) ==
    [R EXCEPT !.m_cmd_threads = {e \in @ : e[1] # key} \cup {<<key, w>>}]

\* A device or process call made by an action on thread t.
Effect(R, t, call) == [R EXCEPT !.effects[t] = Append(@, call)]

\* _execute_external_command: Popen returns as soon as the process is
\* spawned, subprocess.run when the process has exited.
_execute_external_command(R, t, cmd_name, is_async) ==
    IF is_async THEN Effect(R, t, [call |-> "Popen", cmd |-> cmd_name])
    ELSE Effect(R, t, [call |-> "run", cmd |-> cmd_name])

\* The action names do_action knows (Command.KEY_ACTION and the others).
KnownActions ==
    {"key", "pause", "stop", "voice", "external", "play sound", "stop sound",
     "mouse move", "mouse click", "mouse scroll"}

\* The match of do_action on p_action['name'].
MatchAction(R, t, profile, p_action) ==
    IF p_action.kind = "key" THEN Effect(R, t, [call |-> "press_key", cmd |-> p_action.arg])
    ELSE IF p_action.kind = "pause" THEN Effect(R, t, [call |-> "sleep", cmd |-> p_action.arg])
    ELSE IF p_action.kind = "stop" THEN _stop_command(R, p_action.arg)
    ELSE IF p_action.kind = "voice" THEN _do_command(R, t, profile, p_action.arg)
    ELSE IF p_action.kind = "external"
         THEN _execute_external_command(R, t, p_action.arg, FALSE)
    ELSE IF p_action.kind = "play sound"
         THEN Effect(R, t, [call |-> "sound.play", cmd |-> p_action.arg])
    ELSE IF p_action.kind = "stop sound"
         THEN Effect(R, t, [call |-> "sound.stop", cmd |-> p_action.arg])
    ELSE IF p_action.kind = "mouse move"
         THEN Effect(R, t, [call |-> "move_mouse", cmd |-> p_action.arg])
    ELSE IF p_action.kind = "mouse click"
         THEN Effect(R, t, [call |-> "click_mouse", cmd |-> p_action.arg])
    ELSE IF p_action.kind = "mouse scroll"
         THEN Effect(R, t, [call |-> "scroll_mouse", cmd |-> p_action.arg])
    ELSE R

\* do_action with a default case that raises: the exception ends the
\* thread's run, or the audio callback.
do_action_RaisesOnUnknown(R, t, profile, p_action) ==
    IF p_action.kind \in KnownActions THEN MatchAction(R, t, profile, p_action)
    ELSE IF t = 0 THEN [R EXCEPT !.cstack[t] = <<>>]
    ELSE [R EXCEPT !.cstack[t] = <<>>, !.wstate[t] = "finished"]

\* do_action: the match has no default case, another name matches nothing.
do_action(R, t, profile, p_action) == MatchAction(R, t, profile, p_action)

\* LoopContinues with run() testing only w_repeat > 0.
LoopContinues_IgnoresStop(R, t, f) == f.w_repeat > 0

\* The while test of a loop activation.
LoopContinues(R, t, f) ==
    IF f.kind = "run" THEN ~R.m_stop[t] /\ f.w_repeat > 0 ELSE f.w_repeat > 0

\* One step of thread t: the store into the registry, a while test, or one
\* action of the for loop.
StepOn(R, t, profile) ==
    LET d == Len(R.cstack[t])
        f == R.cstack[t][d]
        n == Len(f.actions)
        returned == [R EXCEPT !.cstack[t] = SubSeq(@, 1, d - 1)]
        pop == IF d = 1 /\ t # 0
               THEN [returned EXCEPT !.wstate[t] = "finished"]
               ELSE returned
    IN  IF f.kind = "register" THEN Register(pop, f.phrase, f.worker)
        ELSE IF f.pos = 0
             THEN IF ~LoopContinues(R, t, f) THEN pop
                  ELSE IF n = 0 THEN [R EXCEPT !.cstack[t][d].w_repeat = @ - 1]
                  ELSE [R EXCEPT !.cstack[t][d].pos = 1]
        ELSE LET R1 == IF f.pos < n
                       THEN [R EXCEPT !.cstack[t][d].pos = @ + 1]
                       ELSE [R EXCEPT !.cstack[t][d].pos = 0,
                                      !.cstack[t][d].w_repeat = @ - 1]
                 R2 == [R1 EXCEPT !.log[t] = Append(@, [cmd |-> f.cmd, idx |-> f.pos,
                                                        depth |-> d])]
             IN  do_action(R2, t, profile, f.actions[f.pos])

CommitRunner(R) ==
    /\ ~R.overflow
    /\ cstack' = R.cstack
    /\ wstate' = R.wstate
    /\ m_stop' = R.m_stop
    /\ m_cmd_threads' = R.m_cmd_threads
    /\ log' = R.log
    /\ stopAt' = R.stopAt
    /\ spawned' = R.spawned
    /\ effects' = R.effects

\* Detections with the loop of check_commands not left at the first match.
Detections_NoBreak(table, result_string) ==
    SelectSeq(table, LAMBDA command : IsSubstring(command, result_string))

\* The phrases check_commands calls _do_command with: the loop over
\* commands_list breaks at the first phrase contained in result_string.
Detections(table, result_string) ==
    LET k == FirstMatch(table, result_string)
    IN  IF k = 0 THEN <<>> ELSE <<table[k]>>

\* _do_command for each phrase of a list, the first on top of the stack.
RECURSIVE DoCommands(_, _, _, _)
DoCommands(R, t, profile, phrases) ==
    IF phrases = <<>> THEN R
    ELSE _do_command(DoCommands(R, t, profile, Tail(phrases)), t, profile,
                     Head(phrases))

\* check_commands(result_string) called on thread 0 when it is idle, up to
\* the first loop test or the thread start of _do_command.  Without a
\* recognizer self.recognizer.Result() raises before _do_command.
Dispatch(result_string) ==
    LET found == Detections(commands_list, result_string)
    IN  /\ cstack[0] = <<>>
        /\ dispatches < MaxDispatch
        /\ dispatches' = dispatches + 1
        /\ detected' = [result |-> result_string,
                        command |-> IF found = <<>> THEN <<>> ELSE <<found[1]>>,
                        cmd |-> IF found = <<>> THEN 0
                                ELSE _get_command_for_executing(m_profile, found[1]),
                        start |-> Len(log[0])]
        /\ CommitRunner(IF recognizer = <<>> THEN Runner
                        ELSE DoCommands(Runner, 0, m_profile, found))

\* check_commands(result_string)
CheckCommands(result_string) ==
    /\ Dispatch(result_string)
    /\ UNCHANGED <<callVars, wnd, expandVars, tableVars, listenVars, historyVars>>

\* The words false-positive filtering ignores when none are configured.
DefaultIgnoredWords ==
    { <<"t", "h", "e">>, <<"a">>, <<"a", "n">>, <<"b", "u", "t">>,
      <<"t", "h", "e", "i", "r">>, <<"t", "h", "e", "r", "e">>,
      <<"t", "h", "e", "y">>, <<"b", "e">>, <<"t", "o">>, <<"o", "f">>,
      <<"a", "n", "d">> }

\* _is_ignored_single_word with every word looked up, not the whole of a
\* one-word transcript.
_is_ignored_single_word_EveryWord(result_string, configured) ==
    LET words == SplitWords(Strip(result_string))
        ignored_words == IF configured = {} THEN DefaultIgnoredWords ELSE configured
    IN  /\ words # <<>>
        /\ \A k \in 1..Len(words) : Lower(words[k]) \in ignored_words

\* _is_ignored_single_word; configured is the configuration's
\* IGNORED_SINGLE_WORDS, empty when it is not set.
_is_ignored_single_word(result_string, configured) ==
    LET words == SplitWords(Strip(result_string))
        ignored_words == IF configured = {} THEN DefaultIgnoredWords ELSE configured
    IN  IF Len(words) # 1 THEN FALSE
        ELSE Lower(result_string) \in ignored_words

\* get_listen_result returning the text of a block whether or not
\* AcceptWaveform reported an endpoint.
get_listen_result_AnyBlock(engine, endpoint, final_text) ==
    IF engine = <<>> THEN [calls |-> <<>>, result_string |-> <<>>]
    ELSE [calls |-> <<"AcceptWaveform", "Result">>, result_string |-> final_text]

\* get_listen_result(in_data): endpoint is what AcceptWaveform returns for
\* the block, final_text the text of the engine's Result().
get_listen_result(engine, endpoint, final_text) ==
    IF engine = <<>> THEN [calls |-> <<>>, result_string |-> <<>>]
    ELSE IF endpoint
         THEN [calls |-> <<"AcceptWaveform", "Result">>, result_string |-> final_text]
    ELSE [calls |-> <<"AcceptWaveform">>, result_string |-> <<>>]

\* listen_callback for one audio block, on thread 0 when it is idle.
ListenCallback(endpoint, final_text, configured) ==
    LET got == get_listen_result(recognizer, endpoint, final_text)
    IN  /\ cstack[0] = <<>>
        /\ last' = [op |-> "listen_callback",
                    arg |-> [endpoint |-> endpoint, final_text |-> final_text,
                             configured |-> configured]]
        /\ prior' = [state |-> ListeningState, active |-> StreamActive(Executor)]
        /\ fx' = got.calls
        /\ language' = language
        /\ IF got.result_string = <<>> THEN UNCHANGED runnerVars
           ELSE IF _is_ignored_single_word(got.result_string, configured)
                THEN UNCHANGED runnerVars
           ELSE Dispatch(got.result_string)
        /\ UNCHANGED <<callVars, wnd, expandVars, tableVars, listenVars>>

\* The call of CommandThread.stop() on worker w, as shutdown issues it.
ThreadStopCall(w) == "CommandThread.stop " \o ToString(w)

\* The loop of shutdown over list(self.m_cmd_threads.keys()): _stop_command
\* for each name.  X.S is the executor, X.R the runner.
RECURSIVE StopAllCommands(_, _)
StopAllCommands(X, names) ==
    IF names = {} THEN X
    ELSE LET cmd_name == CHOOSE n \in names : TRUE
             e == CHOOSE e \in X.R.m_cmd_threads : e[1] = cmd_name
         IN  StopAllCommands(
                 [S |-> Did(Did(X.S, ThreadStopCall(e[2])), "del"),
                  R |-> _stop_command(X.R, cmd_name)],
                 names \ {cmd_name})

\* self.m_sound.stop()
SoundStop(X) == [X EXCEPT !.S = Did(@, "sound.stop")]

\* The end of shutdown: os.kill(self.ydotoold.pid, SIGKILL) when there is a
\* daemon.  The daemon is a child this process never waits for, so its pid
\* exists until the process ends and the signal is delivered.
KillDaemon(X) ==
    IF X.S.raised \/ X.S.ydotoold = <<>> THEN X
    ELSE [X EXCEPT !.S = [Did(@, "os.kill") EXCEPT !.ydotoold = <<>>]]

\* shutdown with the capture torn down before the sound is stopped.
shutdown_StreamBeforeSound(S, R) ==
    LET X0 == [S |-> S, R |-> R]
        X1 == StopAllCommands(X0, {e[1] : e \in R.m_cmd_threads})
        X2 == [X1 EXCEPT !.S = _stop(@)]
    IN  KillDaemon(SoundStop(X2))

\* shutdown
shutdown(S, R) ==
    LET X0 == [S |-> S, R |-> R]
        X1 == StopAllCommands(X0, {e[1] : e \in R.m_cmd_threads})
        X2 == SoundStop(X1)
        X3 == [X2 EXCEPT !.S = _stop(@)]
    IN  KillDaemon(X3)

\* Thread t takes its next step.
ThreadStep(t) ==
    /\ cstack[t] # <<>>
    /\ CommitRunner(StepOn(Runner, t, m_profile))
    /\ UNCHANGED <<callVars, wnd, expandVars, tableVars, listenVars, historyVars, detected,
                   dispatches>>

(***************************************************************************)
(* The handlers as actions                                                 *)
(***************************************************************************)
Modes == {"continuous", "keyboard", "mouse"}

Caps == {"grammar", "nogrammar", "raises"}

SetLanguage(supported, cap) ==
    /\ Commit(set_language(Executor, supported, cap), "set_language",
              IF supported THEN cap ELSE "unsupported")
    /\ UNCHANGED <<callVars, wnd, expandVars, runnerVars>>

SetEnableListening(p_enable, mode) ==
    /\ Commit(set_enable_listening(Executor, p_enable, mode),
              IF p_enable THEN "enable" ELSE "disable", mode)
    /\ UNCHANGED <<callVars, wnd, expandVars, runnerVars>>

ResetListening(mode) ==
    /\ Commit(reset_listening(Executor, mode), "reset_listening", mode)
    /\ UNCHANGED <<callVars, wnd, expandVars, runnerVars>>

SetProfile(p_profile) ==
    /\ Commit(set_profile(Executor, p_profile), "set_profile",
              IF p_profile = <<>> THEN "None" ELSE "profile")
    /\ UNCHANGED <<callVars, wnd, expandVars, runnerVars>>

\* The keyboard hook delivers an event to _on_keyboard_key_event.
KeyboardKeyEvent(event_type, matches) ==
    /\ ptl_keyboard_listener
    /\ Commit(_on_keyboard_key_event(Executor, event_type, matches), "key_" \o event_type,
              IF matches THEN "hotkey" ELSE "other")
    /\ UNCHANGED <<callVars, wnd, expandVars, runnerVars>>

\* The mouse hook delivers a button event to _on_mouse_key_event.
MouseKeyEvent(event_type, matches) ==
    /\ ptl_mouse_listener
    /\ Commit(_on_mouse_key_event(Executor, event_type, matches), "button_" \o event_type,
              IF matches THEN "hotkey" ELSE "other")
    /\ UNCHANGED <<callVars, wnd, expandVars, runnerVars>>

\* shutdown, called on the thread of the user interface.
Shutdown ==
    LET X == shutdown(Executor, Runner)
    IN  /\ Commit(X.S, "shutdown", "")
        /\ CommitRunner(X.R)
        /\ UNCHANGED <<callVars, wnd, expandVars, detected, dispatches>>

(***************************************************************************)
(* Profiles                                                                *)
(***************************************************************************)
Key(k) == [kind |-> "key", arg |-> k]

Cmd(name, actions, repeat, async) ==
    [name |-> name, actions |-> actions, repeat |-> repeat, async |-> async]

Profile(name, commands) == [name |-> name, commands |-> commands]

\* Two profiles to swap between: "go, go home" with "stop", and "a [b]".
ListenProfiles ==
    { Profile(<<"p", "1">>,
              <<Cmd(<<"g", "o", ",", "g", "o", " ", "h", "o", "m", "e">>,
                    <<Key(<<"1">>)>>, 1, FALSE),
                Cmd(<<"s", "t", "o", "p">>, <<Key(<<"2">>)>>, 1, FALSE)>>),
      Profile(<<"p", "2">>,
              <<Cmd(<<"a", " ", "[", "b", "]">>, <<Key(<<"1">>)>>, 1, FALSE)>>),
      Profile(<<"p", "0">>, <<>>) }

(***************************************************************************)
(* Initial states                                                          *)
(***************************************************************************)
\* __init__ starts the injection daemon when the configuration selects the
\* ydotool back-end; here it selects direct injection and self.ydotoold stays
\* None.
Daemons == {<<>>}

\* ProfileExecutor.__init__
InitExecutor ==
    /\ m_profile = <<>>
    /\ commands_list = <<>>
    /\ listening = FALSE
    /\ m_stream = 0
    /\ streams = [i \in StreamIds |-> "unused"]
    /\ ptl_key = <<>>
    /\ ptl_keyboard_listener = FALSE
    /\ ptl_mouse_listener = FALSE
    /\ recognizer = <<>>
    /\ grammar_supported = FALSE
    /\ ydotoold \in Daemons
    /\ last = [op |-> "init", arg |-> ""]
    /\ prior = [state |-> "Stopped", active |-> FALSE]
    /\ fx = <<>>
    /\ language = "none"

\* No command has been dispatched and no CommandThread created.
InitRunner ==
    /\ cstack = [t \in Threads |-> <<>>]
    /\ wstate = [w \in Workers |-> "unused"]
    /\ m_stop = [w \in Workers |-> FALSE]
    /\ m_cmd_threads = {}
    /\ log = [t \in Threads |-> <<>>]
    /\ stopAt = [w \in Workers |-> <<>>]
    /\ spawned = [w \in Workers |-> <<>>]
    /\ effects = [t \in Threads |-> <<>>]
    /\ detected = [result |-> <<>>, command |-> <<>>, cmd |-> 0, start |-> 0]
    /\ dispatches = 0

\* No call is inside _stop_command, set_profile or a key event handler.
Requesters == 1..2

NoCalls ==
    /\ stop_pc = [i \in Requesters |-> "idle"]
    /\ swap = <<>>
    /\ hotkey_pc = <<>>

\* No sound action is being edited.
NoEditor == wnd = <<>>

NoExpand ==
    /\ text = <<>>
    /\ variations = <<>>
    /\ epc = "done"

(***************************************************************************)
(* Specification SpecListen: the listening controller under every sequence *)
(* of set_language, enable, disable, reset, set_profile and hotkey events. *)
(***************************************************************************)
InitListen == InitExecutor /\ NoExpand /\ InitRunner /\ NoCalls /\ NoEditor

NextListen ==
    \/ \E supported \in BOOLEAN, cap \in Caps : SetLanguage(supported, cap)
    \/ \E p_enable \in BOOLEAN, mode \in Modes : SetEnableListening(p_enable, mode)
    \/ \E mode \in Modes : ResetListening(mode)
    \/ \E p \in {<<>>} \cup {<<q>> : q \in ListenProfiles} : SetProfile(p)
    \/ \E e \in {"down", "up"}, matches \in BOOLEAN : KeyboardKeyEvent(e, matches)
    \/ \E e \in {"down", "up"}, matches \in BOOLEAN : MouseKeyEvent(e, matches)

SpecListen == InitListen /\ [][NextListen]_vars

(***************************************************************************)
(* Specification SpecCmd: commands dispatched and run, on the audio thread *)
(* and on CommandThreads, for a profile loaded by set_profile after        *)
(* set_language.                                                           *)
(***************************************************************************)
MaxRepeat == 2

Repeats == -1..MaxRepeat

StopAction(name) == [kind |-> "stop", arg |-> name]

VoiceAction(name) == [kind |-> "voice", arg |-> name]

\* "a,b" (phrases "a" and "b") presses two keys, with any repeat count,
\* synchronous or not; "s" stops a command by phrase or by name, then
\* presses a key; "q" is asynchronous and stops itself in its first of two
\* iterations.
CmdProfiles ==
    { Profile(<<"c">>,
              <<Cmd(<<"a", ",", "b">>, <<Key(<<"1">>), Key(<<"2">>)>>, r, async),
                Cmd(<<"s">>, <<StopAction(target), Key(<<"3">>)>>, 1, FALSE),
                Cmd(<<"q">>, <<Key(<<"4">>), StopAction(<<"q">>), Key(<<"5">>)>>,
                    2, TRUE)>>) :
        r \in Repeats, async \in BOOLEAN, target \in {<<"a">>, <<"a", ",", "b">>} }

CmdResults == {<<"a">>, <<"b">>, <<"s">>, <<"q">>, <<"x">>}

\* The executor's fields after set_language and set_profile(p), not
\* listening.
LoadedFields(p) ==
    /\ m_profile = <<p>>
    /\ commands_list = BuildCommandsList(p)
    /\ listening = FALSE
    /\ m_stream = 0
    /\ streams = [i \in StreamIds |-> "unused"]
    /\ ptl_key = <<>>
    /\ ptl_keyboard_listener = FALSE
    /\ ptl_mouse_listener = FALSE
    /\ recognizer = <<[cap |-> "grammar", grammar |-> <<BuildCommandsList(p)>>]>>
    /\ grammar_supported = TRUE
    /\ last = [op |-> "set_profile", arg |-> "profile"]
    /\ prior = [state |-> "Stopped", active |-> FALSE]
    /\ fx = <<"SetGrammar">>
    /\ language = "supported"

\* The executor after set_language and set_profile(p), not listening.
LoadedExecutor(p) ==
    /\ ydotoold \in Daemons
    /\ LoadedFields(p)

InitCmd ==
    /\ \E p \in CmdProfiles : LoadedExecutor(p)
    /\ NoExpand
    /\ InitRunner
    /\ NoCalls
    /\ NoEditor

NextCmd ==
    \/ \E r \in CmdResults : CheckCommands(r)
    \/ \E t \in Threads : ThreadStep(t)

SpecCmd == InitCmd /\ [][NextCmd]_vars

(***************************************************************************)
(* Specification SpecProfile: set_profile called, once and again, with a   *)
(* profile of one command whose name is any string with a letter, up to    *)
(* MaxNameLen characters, and then with None or with another profile.      *)
(***************************************************************************)
MaxNameLen == 5

NameChars == {"a", "A", " ", ",", "[", "]"}

NamedProfile(name) == Profile(<<"n">>, <<Cmd(name, <<Key(<<"1">>)>>, 1, FALSE)>>)

\* A command name has at least one letter.
NameInputs ==
    {s \in StringsOver(NameChars, MaxNameLen) :
         \E i \in 1..Len(s) : s[i] \in {"a", "A"}}

InitProfile ==
    /\ text \in NameInputs
    /\ variations = <<>>
    /\ epc = "init"
    /\ InitExecutor
    /\ InitRunner
    /\ NoCalls
    /\ NoEditor

\* set_profile with the profile whose command is named text.
LoadProfile ==
    /\ epc \in {"init", "once"}
    /\ epc' = IF epc = "init" THEN "once" ELSE "twice"
    /\ Commit(set_profile(Executor, <<NamedProfile(text)>>), "set_profile", "profile")
    /\ UNCHANGED <<callVars, wnd, text, variations, runnerVars>>

\* After that, set_profile with None or with the profile of one command "b".
OtherProfiles == { <<>>, <<NamedProfile(<<"b">>)>> }

SwapProfile(p_profile) ==
    /\ epc = "twice"
    /\ epc' = "swapped"
    /\ Commit(set_profile(Executor, p_profile), "set_profile",
              IF p_profile = <<>> THEN "None" ELSE "profile")
    /\ UNCHANGED <<callVars, wnd, text, variations, runnerVars>>

NextProfile ==
    \/ LoadProfile
    \/ \E p \in OtherProfiles : SwapProfile(p)

SpecProfile == InitProfile /\ [][NextProfile]_vars

(***************************************************************************)
(* Specification SpecTable: check_commands with any transcript up to       *)
(* MaxResultLen characters, on the table of a profile of one or two        *)
(* commands whose names are among TableNames.                              *)
(***************************************************************************)
MaxResultLen == 3

ResultChars == {"a", "b"}

\* Names that share phrases, contain one another's phrases, have phrases of
\* equal length, alternates, optional parts and an empty alternate.
TableNames ==
    { <<"a">>, <<"b">>, <<"a", "b">>, <<"b", "a">>, <<"a", ",", "b">>,
      <<"b", ",", "a", "b">>, <<"a", "[", "b", "]">>, <<"[", "a", "]", "b">>,
      <<"a", ",", ",", "b">> }

TableCmd(name) == Cmd(name, <<Key(<<"1">>)>>, 1, FALSE)

TableProfiles ==
    {Profile(<<"t">>, <<TableCmd(n)>>) : n \in TableNames}
        \cup {Profile(<<"t">>, <<TableCmd(n), TableCmd(m)>>) :
                  n \in TableNames, m \in TableNames}

InitTable ==
    /\ \E p \in TableProfiles : LoadedExecutor(p)
    /\ text \in StringsOver(ResultChars, MaxResultLen) \ {<<>>}
    /\ variations = <<>>
    /\ epc = "done"
    /\ InitRunner
    /\ NoCalls
    /\ NoEditor

\* The audio callback passes the finalized transcript to check_commands.
CheckTranscript == CheckCommands(text)

NextTable ==
    \/ CheckTranscript
    \/ \E t \in Threads : ThreadStep(t)

SpecTable == InitTable /\ [][NextTable]_vars

(***************************************************************************)
(* Specification SpecAudio: listen_callback called for audio blocks with   *)
(* and without an endpoint, the engine's text any transcript of words up   *)
(* to MaxAudioLen characters or one of the examples "A", "the", "to the",  *)
(* on an executor without a recognizer or with a loaded profile.           *)
(***************************************************************************)
MaxAudioLen == 3

AudioChars == {"a", "b", " "}

\* The engine's text is words joined by single spaces, or empty.
AudioTexts ==
    {s \in StringsOver(AudioChars, MaxAudioLen) : NormalizeSpace(s) = s}
        \cup { <<"A">>, <<"t", "h", "e">>, <<"t", "o", " ", "t", "h", "e">> }

\* IGNORED_SINGLE_WORDS: not configured, or the one word "b".
IgnoredConfigs == { {}, {<<"b">>} }

\* Commands "a", "b, a b" (asynchronous) and "the".
AudioProfiles ==
    { Profile(<<"v">>,
              <<Cmd(<<"a">>, <<Key(<<"1">>)>>, 1, FALSE),
                Cmd(<<"b", ",", "a", " ", "b">>, <<Key(<<"2">>)>>, 1, TRUE),
                Cmd(<<"t", "h", "e">>, <<Key(<<"3">>)>>, 1, FALSE)>>) }

\* text is what the engine's Result() returns for the utterance.
InitAudio ==
    /\ InitExecutor \/ \E p \in AudioProfiles : LoadedExecutor(p)
    /\ text \in AudioTexts
    /\ variations = <<>>
    /\ epc = "done"
    /\ InitRunner
    /\ NoCalls
    /\ NoEditor

\* The stream delivers a block to listen_callback.
AudioBlock(endpoint, configured) == ListenCallback(endpoint, text, configured)

NextAudio ==
    \/ \E endpoint \in BOOLEAN, configured \in IgnoredConfigs :
           AudioBlock(endpoint, configured)
    \/ \E t \in Threads : ThreadStep(t)

SpecAudio == InitAudio /\ [][NextAudio]_vars

(***************************************************************************)
(* Specification SpecAct: commands whose sequences hold an external        *)
(* command with its async flag set or clear, a pause, sound and mouse      *)
(* actions and an action of an unknown name, run synchronously or on a     *)
(* CommandThread.                                                          *)
(***************************************************************************)
\* {'name': 'external command action', 'command': ..., 'async': ...}
ExternalAction(command, async) == [kind |-> "external", arg |-> command, async |-> async]

OtherAction(name, arg) == [kind |-> name, arg |-> arg]

\* The actions besides key presses that the commands of SpecAct draw from.
ActActions ==
    { ExternalAction(<<"x">>, TRUE), ExternalAction(<<"y">>, FALSE),
      OtherAction("pause", <<"1">>), OtherAction("play sound", <<"f">>),
      OtherAction("stop sound", <<>>), OtherAction("mouse move", <<"m">>),
      OtherAction("mouse click", <<"c">>), OtherAction("mouse scroll", <<"w">>),
      OtherAction("unknown action", <<"u">>), OtherAction("", <<>>) }

\* "a": a key press, two of those actions, a key press; synchronous or not,
\* once or twice.
ActProfiles ==
    { Profile(<<"e">>,
              <<Cmd(<<"a">>, <<Key(<<"1">>), first, second, Key(<<"2">>)>>, r, async)>>) :
        first \in ActActions, second \in ActActions, r \in 1..MaxRepeat,
        async \in BOOLEAN }

InitAct ==
    /\ \E p \in ActProfiles : LoadedExecutor(p)
    /\ NoExpand
    /\ InitRunner
    /\ NoCalls
    /\ NoEditor

\* The user says "a".
SayA == CheckCommands(<<"a">>)

NextAct ==
    \/ SayA
    \/ \E t \in Threads : ThreadStep(t)

SpecAct == InitAct /\ [][NextAct]_vars

(***************************************************************************)
(* Specification SpecShutdown: shutdown called at any moment, and again,   *)
(* while listening is enabled and disabled (continuous or on a keyboard    *)
(* hotkey), the profile swapped, the hotkey pressed and released, and      *)
(* asynchronous commands dispatched and run; __init__ has started the      *)
(* injection daemon.                                                       *)
(***************************************************************************)
\* Commands "a" and "b", both asynchronous.
ShutdownProfiles ==
    { Profile(<<"d">>,
              <<Cmd(<<"a">>, <<Key(<<"1">>)>>, 1, TRUE),
                Cmd(<<"b">>, <<Key(<<"3">>)>>, 1, TRUE)>>) }

ShutdownModes == {"continuous", "keyboard"}

InitShutdown ==
    /\ \E p \in ShutdownProfiles : LoadedFields(p)
    /\ ydotoold = <<"pid">>
    /\ NoExpand
    /\ InitRunner
    /\ NoCalls
    /\ NoEditor

\* The user says "a", and after that "b".
SayNext == CheckCommands(IF dispatches = 0 THEN <<"a">> ELSE <<"b">>)

NextShutdown ==
    \/ \E p_enable \in BOOLEAN, mode \in ShutdownModes :
           SetEnableListening(p_enable, mode)
    \/ \E p \in ShutdownProfiles : SetProfile(<<p>>)
    \/ \E e \in {"down", "up"} : KeyboardKeyEvent(e, TRUE)
    \/ SayNext
    \/ \E t \in Threads : ThreadStep(t)
    \/ Shutdown

SpecShutdown == InitShutdown /\ [][NextShutdown]_vars

(***************************************************************************)
(* Specification SpecGrammar: a recognizer of any grammar capability, the  *)
(* profile swapped, listening enabled and disabled (continuous or on a     *)
(* keyboard hotkey), and transcripts delivered while the stream captures.  *)
(***************************************************************************)
\* Commands "a" (synchronous) and "b" (asynchronous), and no command.
GrammarProfiles ==
    { Profile(<<"g">>,
              <<Cmd(<<"a">>, <<Key(<<"1">>)>>, 1, FALSE),
                Cmd(<<"b">>, <<Key(<<"2">>)>>, 1, TRUE)>>),
      Profile(<<"p", "0">>, <<>>) }

\* The capturing stream's callback passes a finalized transcript to
\* check_commands: the user says "a", and after that "b".
Hear ==
    /\ StreamActive(Executor)
    /\ SayNext

NextGrammar ==
    \/ \E cap \in Caps : SetLanguage(TRUE, cap)
    \/ \E p_enable \in BOOLEAN, mode \in ShutdownModes :
           SetEnableListening(p_enable, mode)
    \/ \E p \in {<<>>} \cup {<<q>> : q \in GrammarProfiles} : SetProfile(p)
    \/ \E e \in {"down", "up"} : KeyboardKeyEvent(e, TRUE)
    \/ Hear
    \/ \E t \in Threads : ThreadStep(t)

SpecGrammar == InitListen /\ [][NextGrammar]_vars

(***************************************************************************)
(* Specification SpecVoice: the command "o" presses a key, executes the    *)
(* voice command action carrying the name of the profile's other command   *)
(* (or a name no command has) and presses another key; the other command   *)
(* is named "a", "a,b" or "A", synchronous or not, run once or twice.     *)
(***************************************************************************)
VoiceNames == { <<"a">>, <<"a", ",", "b">>, <<"A">> }

\* A name no command of the profile has.
NoName == <<"x">>

VoiceProfiles ==
    { Profile(<<"v">>,
              <<Cmd(<<"o">>, <<Key(<<"1">>), VoiceAction(target), Key(<<"2">>)>>,
                    1, FALSE),
                Cmd(name, <<Key(<<"3">>)>>, r, async)>>) :
        name \in VoiceNames, target \in VoiceNames \cup {NoName},
        r \in 1..MaxRepeat, async \in BOOLEAN }

InitVoice ==
    /\ \E p \in VoiceProfiles : LoadedExecutor(p)
    /\ NoExpand
    /\ InitRunner
    /\ NoCalls
    /\ NoEditor

\* The user says "o".
SayO == CheckCommands(<<"o">>)

NextVoice ==
    \/ SayO
    \/ \E t \in Threads : ThreadStep(t)

SpecVoice == InitVoice /\ [][NextVoice]_vars

(***************************************************************************)
(* Claims about nested voice commands, under SpecVoice                     *)
(***************************************************************************)
\* The commands of the active profile whose name is name.
Named(name) ==
    {c \in 1..Len(m_profile[1].commands) : m_profile[1].commands[c].name = name}

\* The actions the audio thread executed at depth d for command c.
RanAt(c, d) == SelectSeq(log[0], LAMBDA e : e.cmd = c /\ e.depth = d)

\* Command c was run from the nested action as a dispatch runs it: inline
\* max(repeat, 1) times when synchronous, on a CommandThread of its own
\* otherwise.
RunNested(c) ==
    LET w_command == m_profile[1].commands[c]
    IN  IF w_command.async
        THEN /\ RanAt(c, 2) = <<>>
             /\ \E w \in Workers :
                    spawned[w] # <<>> /\ spawned[w][1].cmd = c
        ELSE /\ Len(RanAt(c, 2)) = Max(w_command.repeat, 1) * Len(w_command.actions)
             /\ \A w \in Workers : spawned[w] = <<>>

\* C24: once "o" has run, the command whose name its voice command action
\* carries has been run as a dispatch runs it; when no command has that
\* name nothing else has run; in both cases "o" executed its three actions
\* in order.
C24_NestedCommandRunsByName ==
    (dispatches = 1 /\ cstack[0] = <<>>) =>
        LET target == m_profile[1].commands[1].actions[2].arg
        IN  /\ [k \in 1..3 |-> RanAt(1, 1)[k].idx] = <<1, 2, 3>>
            /\ Len(RanAt(1, 1)) = 3
            /\ IF Named(target) = {}
               THEN Len(log[0]) = 3 /\ \A w \in Workers : spawned[w] = <<>>
               ELSE \A c \in Named(target) : RunNested(c)

(***************************************************************************)
(* Specification SpecRace: two threads call _stop_command("a") (shutdown   *)
(* or a stop request on one, a stop action on another) while the           *)
(* asynchronous command "a" is dispatched and runs.  _stop_command is      *)
(* followed statement by statement: the membership test, the lookup with   *)
(* the call of stop(), and the del are separate steps of the interpreter,  *)
(* and no lock is held across them.                                        *)
(***************************************************************************)
RaceName == <<"a">>

\* The thread registered under p_cmd_name, in a sequence of length 0 or 1.
Registered(p_cmd_name) ==
    IF \E e \in m_cmd_threads : e[1] = p_cmd_name
    THEN <<(CHOOSE e \in m_cmd_threads : e[1] = p_cmd_name)[2]>>
    ELSE <<>>

\* if p_cmd_name in self.m_cmd_threads:
StopCommandTest(i, p_cmd_name) ==
    /\ stop_pc[i] = "idle"
    /\ stop_pc' = [stop_pc EXCEPT ![i] = IF Registered(p_cmd_name) # <<>>
                                         THEN "stop" ELSE "returned"]
    /\ UNCHANGED <<expandVars, tableVars, listenVars, historyVars, runnerVars,
                   swap, hotkey_pc, wnd>>

\* self.m_cmd_threads[p_cmd_name].stop(): the subscript raises KeyError when
\* the entry is gone.
StopCommandStop(i, p_cmd_name) ==
    /\ stop_pc[i] = "stop"
    /\ IF Registered(p_cmd_name) = <<>>
       THEN /\ stop_pc' = [stop_pc EXCEPT ![i] = "KeyError"]
            /\ UNCHANGED <<cstack, wstate, m_stop, m_cmd_threads, log, stopAt,
                           spawned, effects>>
       ELSE /\ stop_pc' = [stop_pc EXCEPT ![i] = "del"]
            /\ CommitRunner(CommandThread_stop(Runner, Registered(p_cmd_name)[1]))
    /\ UNCHANGED <<expandVars, tableVars, listenVars, historyVars, detected,
                   dispatches, swap, hotkey_pc, wnd>>

\* del self.m_cmd_threads[p_cmd_name]: raises KeyError when the entry is gone.
StopCommandDel(i, p_cmd_name) ==
    /\ stop_pc[i] = "del"
    /\ IF Registered(p_cmd_name) = <<>>
       THEN /\ stop_pc' = [stop_pc EXCEPT ![i] = "KeyError"]
            /\ UNCHANGED m_cmd_threads
       ELSE /\ stop_pc' = [stop_pc EXCEPT ![i] = "returned"]
            /\ m_cmd_threads' = {e \in m_cmd_threads : e[1] # p_cmd_name}
    /\ UNCHANGED <<expandVars, tableVars, listenVars, historyVars, cstack, wstate,
                   m_stop, log, stopAt, spawned, effects, detected, dispatches,
                   swap, hotkey_pc, wnd>>

InitRace ==
    /\ \E p \in ShutdownProfiles : LoadedExecutor(p)
    /\ NoExpand
    /\ InitRunner
    /\ NoCalls
    /\ NoEditor

NextRace ==
    \/ SayA
    \/ \E t \in Threads : ThreadStep(t)
    \/ \E i \in Requesters : StopCommandTest(i, RaceName)
    \/ \E i \in Requesters : StopCommandStop(i, RaceName)
    \/ \E i \in Requesters : StopCommandDel(i, RaceName)

SpecRace == InitRace /\ [][NextRace]_vars

(***************************************************************************)
(* Claims about concurrent stops, under SpecRace                           *)
(***************************************************************************)
\* C22: when two threads stop the same registered name at the same time,
\* neither call raises, and once both have returned the thread that was
\* registered has its flag set and no entry refers to a stopped thread.
C22_ConcurrentStopsAreSafe ==
    /\ \A i \in Requesters : stop_pc[i] # "KeyError"
    /\ (\A i \in Requesters : stop_pc[i] = "returned") =>
           \A e \in m_cmd_threads : ~m_stop[e[2]]

(***************************************************************************)
(* Specification SpecSwap: set_profile followed in two steps, up to        *)
(* `self.commands_list = []` and from there to its return, while the       *)
(* capturing stream's callback delivers transcripts on the audio thread.   *)
(* The other handlers run on the thread that calls set_profile, so they    *)
(* are called only when it has returned.                                   *)
(***************************************************************************)
\* set_profile runs to `self.commands_list = []`; with None it returns there.
SetProfileBegin(p_profile) ==
    LET S2 == set_profile_clear(Executor, p_profile)
    IN  /\ swap = <<>>
        /\ Commit(S2, "set_profile_clear", IF p_profile = <<>> THEN "None" ELSE "profile")
        /\ swap' = IF S2.raised \/ p_profile = <<>> THEN <<>>
                   ELSE <<[p_profile |-> p_profile, was_listening |-> listening]>>
        /\ UNCHANGED <<expandVars, runnerVars, stop_pc, hotkey_pc, wnd>>

\* set_profile runs from there to its return.
SetProfileEnd ==
    /\ swap # <<>>
    /\ Commit(set_profile_build(Executor, swap[1].p_profile, swap[1].was_listening),
              "set_profile", "profile")
    /\ swap' = <<>>
    /\ UNCHANGED <<expandVars, runnerVars, stop_pc, hotkey_pc, wnd>>

\* set_language and set_enable_listening, called when set_profile has
\* returned.
LanguageBetweenSwaps ==
    /\ swap = <<>>
    /\ SetLanguage(TRUE, "grammar")

EnableBetweenSwaps(p_enable, mode) ==
    /\ swap = <<>>
    /\ SetEnableListening(p_enable, mode)

NextSwap ==
    \/ LanguageBetweenSwaps
    \/ \E p_enable \in BOOLEAN, mode \in ShutdownModes :
           EnableBetweenSwaps(p_enable, mode)
    \/ \E p \in {<<>>} \cup {<<q>> : q \in GrammarProfiles} : SetProfileBegin(p)
    \/ SetProfileEnd
    \/ Hear
    \/ \E t \in Threads : ThreadStep(t)

SpecSwap == InitListen /\ [][NextSwap]_vars

(***************************************************************************)
(* Claims about the profile swap, under SpecSwap                           *)
(***************************************************************************)
\* C23: while set_profile is between emptying the command table and sorting
\* the new one, no capture stream is active, so the audio callback is not
\* running check_commands on the table or the profile being replaced.
C23_NoCaptureDuringSwap ==
    swap # <<>> => \A i \in StreamIds : streams[i] # "active"

(***************************************************************************)
(* Specification SpecHotkey: _on_keyboard_key_event followed in two steps  *)
(* on the thread of the keyboard hook, its tests and then the call they    *)
(* lead to (m_stream.start(), or m_stream.stop() after the sleep of        *)
(* _stop_ptl_stream), while the thread of the user interface calls         *)
(* set_language, set_enable_listening, set_profile and shutdown.           *)
(***************************************************************************)
\* The hook delivers an event of the hotkey: the handler evaluates
\* self.m_stream.active and, on a key up while capturing, enters the sleep.
HotkeyTest(event_type) ==
    /\ ptl_keyboard_listener
    /\ hotkey_pc = <<>>
    /\ IF m_stream = 0
       THEN /\ Commit(Raise(Executor, "AttributeError"), "key_event_test", event_type)
            /\ hotkey_pc' = <<>>
       ELSE IF event_type = "down" /\ ~StreamActive(Executor)
            THEN /\ Commit(Executor, "key_event_test", event_type)
                 /\ hotkey_pc' = <<"start">>
       ELSE IF event_type = "up" /\ StreamActive(Executor)
            THEN /\ Commit(Did(Executor, "sleep"), "key_event_test", event_type)
                 /\ hotkey_pc' = <<"drain">>
       ELSE /\ Commit(Executor, "key_event_test", event_type)
            /\ hotkey_pc' = <<>>
    /\ UNCHANGED <<expandVars, runnerVars, stop_pc, swap, wnd>>

\* The handler makes the call: self.m_stream.start(), or self.m_stream.stop()
\* and self.recognizer.Result() when the sleep is over.
HotkeyCall ==
    /\ hotkey_pc # <<>>
    /\ IF hotkey_pc = <<"start">>
       THEN Commit(StreamStart(Executor), "key_event_call", "down")
       ELSE Commit(_stop_ptl_stream_drained(Executor), "key_event_call", "up")
    /\ hotkey_pc' = <<>>
    /\ UNCHANGED <<expandVars, runnerVars, stop_pc, swap, wnd>>

HotkeyModes == {"keyboard"}

NextHotkey ==
    \/ SetLanguage(TRUE, "grammar")
    \/ \E p_enable \in BOOLEAN, mode \in HotkeyModes :
           SetEnableListening(p_enable, mode)
    \/ \E p \in {<<>>} \cup {<<q>> : q \in GrammarProfiles} : SetProfile(p)
    \/ Shutdown
    \/ \E e \in {"down", "up"} : HotkeyTest(e)
    \/ HotkeyCall

SpecHotkey == InitListen /\ [][NextHotkey]_vars

(***************************************************************************)
(* Claims about the hotkey handler, under SpecHotkey                       *)
(***************************************************************************)
\* C28: neither step of the hotkey handler raises: it reads
\* self.m_stream.active, starts and stops the stream only while m_stream
\* refers to an open stream, whatever the other thread has done in between.
C28_HotkeyNeverUsesDeadStream ==
    (last.op \in {"key_event_test", "key_event_call"}) => ~Raised(fx)

(***************************************************************************)
(* The sound action editor (linvam/soundactioneditwnd.py).  The dialog is  *)
(* a record W: its fields, the rows of its category and file lists, the    *)
(* rows selected in the file list, the filter texts, and whether the OK    *)
(* and Play buttons are enabled.  selected_files is a set: the code uses   *)
(* the list only for its emptiness and for a random choice.                *)
(***************************************************************************)
\* p_sounds.m_sounds: voice pack -> category -> files.  Names are single
\* letters.
Sounds ==
    [pack \in {"p", "q"} |->
        IF pack = "p" THEN [cat \in {"c", "d"} |-> IF cat = "c" THEN {"f", "g"} ELSE {"h"}]
        ELSE [cat \in {"c"} |-> {"f"}]]

\* The texts typed into filterCategories and filterFiles.
CategoryFilters == {"", "c", "d"}

FileFilters == {"", "f", "g"}

\* re.search(filter, v, re.IGNORECASE) with no filter when the text is
\* empty: a one-letter filter is found in a one-letter name when they are
\* the same letter.
PassesFilter(filter, v) == filter = "" \/ filter = v

\* populate_categories(reset)
populate_categories(W, reset) ==
    IF W.selected_voice_pack = <<>> THEN W
    ELSE LET W1 == IF reset
                   THEN [W EXCEPT !.listCategories = {}, !.listFiles = {},
                                  !.selection = {}, !.selected_category = <<>>,
                                  !.selected_files = {}]
                   ELSE W
             s == DOMAIN Sounds[W1.selected_voice_pack[1]]
         IN  [W1 EXCEPT !.listCategories =
                  @ \cup {v \in s : PassesFilter(W1.filterCategories, v)}]

\* populate_files(reset): removing the rows clears the selection of the
\* view; the OK button is left as it is.
populate_files(W, reset) ==
    IF W.selected_voice_pack = <<>> \/ W.selected_category = <<>> THEN W
    ELSE LET W1 == IF reset
                   THEN [W EXCEPT !.listFiles = {}, !.selection = {},
                                  !.selected_files = {}]
                   ELSE W
             s == Sounds[W1.selected_voice_pack[1]][W1.selected_category[1]]
         IN  [W1 EXCEPT !.listFiles =
                  @ \cup {v \in s : PassesFilter(W1.filterFiles, v)}]

\* select_old_entries: the files of the edited action that are rows of the
\* list are selected in the view.
select_old_entries(W) ==
    IF W.selected_files = {} THEN W
    ELSE [W EXCEPT !.selection = W.selected_files \cap W.listFiles,
                   !.buttonPlaySound = TRUE]

\* __init__(p_sounds, p_sound_action): p_sound_action is <<>> for None.
SoundActionEditWnd(p_sound_action) ==
    LET W0 == [selected_voice_pack |-> <<>>, selected_category |-> <<>>,
               selected_files |-> {}, m_sound_action |-> <<>>,
               buttonOkay |-> FALSE, buttonPlaySound |-> FALSE,
               listCategories |-> {}, listFiles |-> {}, selection |-> {},
               filterCategories |-> "", filterFiles |-> "", accepted |-> FALSE]
        W1 == IF p_sound_action = <<>> THEN W0
              ELSE [W0 EXCEPT !.selected_voice_pack = <<p_sound_action[1].pack>>,
                              !.selected_category = <<p_sound_action[1].cat>>,
                              !.selected_files = p_sound_action[1].files,
                              !.buttonOkay = TRUE]
    IN  select_old_entries(populate_files(populate_categories(W1, FALSE), FALSE))

\* on_voice_pack_select, the current row of listVoicepacks being pack
on_voice_pack_select(W, pack) ==
    [populate_categories([W EXCEPT !.selected_voice_pack = <<pack>>], TRUE)
        EXCEPT !.buttonOkay = FALSE, !.buttonPlaySound = FALSE]

\* on_category_select, the current row of listCategories being cat
on_category_select(W, cat) ==
    [populate_files([W EXCEPT !.selected_category = <<cat>>], TRUE)
        EXCEPT !.buttonOkay = FALSE, !.buttonPlaySound = FALSE]

\* on_file_select: selected_files is what the view has selected.
on_file_select(W) ==
    LET W1 == [W EXCEPT !.selected_files = W.selection]
    IN  IF W1.selected_files # {}
        THEN [W1 EXCEPT !.buttonOkay = TRUE, !.buttonPlaySound = TRUE]
        ELSE [W1 EXCEPT !.buttonOkay = FALSE, !.buttonPlaySound = FALSE]

\* slot_ok
slot_ok(W) ==
    [W EXCEPT !.m_sound_action = <<[pack |-> W.selected_voice_pack,
                                    cat |-> W.selected_category,
                                    files |-> W.selected_files]>>,
              !.accepted = TRUE]

(***************************************************************************)
(* Specification SpecEditor: the dialog opened for a new action or for an  *)
(* action with one file; the user clicks voice packs, categories and       *)
(* files (with and without Ctrl), types in the two filters and presses OK. *)
(***************************************************************************)
Wnd == wnd[1]

EditedActions == { <<>>, <<[pack |-> "p", cat |-> "c", files |-> {"f"}]>> }

InitEditor ==
    /\ InitExecutor
    /\ NoExpand
    /\ InitRunner
    /\ NoCalls
    /\ \E a \in EditedActions : wnd = <<SoundActionEditWnd(a)>>

EditorStep(W) ==
    /\ ~Wnd.accepted
    /\ wnd' = <<W>>
    /\ UNCHANGED <<expandVars, tableVars, listenVars, historyVars, runnerVars,
                   callVars>>

ClickVoicePack(pack) == EditorStep(on_voice_pack_select(Wnd, pack))

ClickCategory(cat) ==
    /\ cat \in Wnd.listCategories
    /\ EditorStep(on_category_select(Wnd, cat))

\* A click on a row of the file list: alone it selects the row, with Ctrl
\* it toggles the row in the selection; then the clicked signal calls
\* on_file_select.
ClickFile(row, ctrl) ==
    /\ row \in Wnd.listFiles
    /\ EditorStep(on_file_select(
           [Wnd EXCEPT !.selection =
                IF ~ctrl THEN {row}
                ELSE IF row \in @ THEN @ \ {row} ELSE @ \cup {row}]))

\* filterCategories.textChanged calls populate_categories()
TypeCategoryFilter(filter) ==
    /\ filter # Wnd.filterCategories
    /\ EditorStep(populate_categories([Wnd EXCEPT !.filterCategories = filter], TRUE))

\* filterFiles.textChanged calls populate_files()
TypeFileFilter(filter) ==
    /\ filter # Wnd.filterFiles
    /\ EditorStep(populate_files([Wnd EXCEPT !.filterFiles = filter], TRUE))

\* The OK button can be pressed while it is enabled.
PressOk ==
    /\ Wnd.buttonOkay
    /\ EditorStep(slot_ok(Wnd))

NextEditor ==
    \/ \E pack \in DOMAIN Sounds : ClickVoicePack(pack)
    \/ \E cat \in {"c", "d"} : ClickCategory(cat)
    \/ \E row \in {"f", "g", "h"}, ctrl \in BOOLEAN : ClickFile(row, ctrl)
    \/ \E filter \in CategoryFilters : TypeCategoryFilter(filter)
    \/ \E filter \in FileFilters : TypeFileFilter(filter)
    \/ PressOk

SpecEditor == InitEditor /\ [][NextEditor]_vars

(***************************************************************************)
(* Claims about the sound action editor, under SpecEditor                  *)
(***************************************************************************)
\* C30: the OK button is enabled only while at least one file is selected,
\* and the action the dialog was accepted with has a files list that is not
\* empty.
C30_OkOnlyWithFiles ==
    /\ Wnd.buttonOkay => Wnd.selected_files # {}
    /\ Wnd.m_sound_action # <<>> => Wnd.m_sound_action[1].files # {}

(***************************************************************************)
(* Claims about the grammar constraint, under SpecGrammar                  *)
(***************************************************************************)
\* The live recognizer cannot take a grammar.
Degraded == recognizer # <<>> /\ recognizer[1].cap \in {"nogrammar", "raises"}

\* The last call applied the table to the recognizer: set_profile or
\* set_language, with a recognizer and a table that is not empty.
GrammarApplied ==
    /\ last.op \in {"set_profile", "set_language"}
    /\ last.arg # "unsupported"
    /\ recognizer # <<>>
    /\ commands_list # <<>>

\* The call that applied the grammar to an engine without the capability
\* returned normally, with the flag false and the recognizer unconstrained;
\* set_profile built the table of the profile.
DegradesQuietly ==
    (GrammarApplied /\ Degraded) =>
        /\ ~Raised(fx)
        /\ ~grammar_supported
        /\ recognizer[1].grammar = <<>>
        /\ last.op = "set_profile" =>
               commands_list = BuildCommandsList(m_profile[1])

\* Enabling from Stopped starts listening on such an engine.
EnablesDegraded ==
    (last.op = "enable" /\ Degraded /\ prior.state = "Stopped") =>
        /\ ~Raised(fx)
        /\ ListeningState = (IF last.arg = "continuous" THEN "Continuous"
                             ELSE "PushToTalkArmed")

\* C21: when the engine has no SetGrammar or SetGrammar raises, applying the
\* grammar returns normally and leaves grammar_supported false; set_profile
\* completes, set_enable_listening(True) starts listening, and a transcript
\* containing a phrase of the table starts its command.
C21_GrammarFailureIsNotFatal ==
    /\ [](DegradesQuietly /\ EnablesDegraded)
    /\ [][(dispatches' = dispatches + 1 /\ Degraded
              /\ FirstMatch(commands_list, detected'.result) # 0) =>
              /\ detected'.cmd # 0
              /\ \/ Len(cstack'[0]) = 1
                 \/ \E w \in Workers : spawned'[w] # spawned[w]
         ]_vars

\* SetGrammar raised in set_profile, listening was enabled afterwards and
\* the command "a" has run.
C21_Witness ==
    /\ recognizer # <<>> /\ recognizer[1].cap = "raises"
    /\ commands_list # <<>>
    /\ ~grammar_supported
    /\ ListeningState = "Continuous"
    /\ last.op = "enable"
    /\ detected.result = <<"a">>
    /\ cstack[0] = <<>>
    /\ Len(log[0]) = 1

(***************************************************************************)
(* Claims about shutdown, under SpecShutdown                               *)
(***************************************************************************)
\* A step of shutdown that makes a call it did not make, in that order and
\* from that state, the call before: no other step changes the record of
\* the last handler called.
ShutdownStep ==
    /\ last'.op = "shutdown"
    /\ historyVars' # historyVars

ThreadCalls == {ThreadStopCall(w) : w \in Workers} \cup {"del"}

TeardownCalls ==
    {"unhook.keyboard", "unhook.mouse", "stream.stop", "stream.close", "FinalResult"}

\* The positions in a list of calls of the calls among a set.
Positions(calls, among) == {k \in 1..Len(calls) : calls[k] \in among}

\* C13: shutdown first calls stop() on every registered thread and removes
\* its entry, then stops the sound, then unhooks the hotkey listener and
\* stops and closes the capture stream, then kills the injection daemon;
\* each of these is issued when there is something for it to act on, and
\* always after the ones before it.
C13_ShutdownOrder ==
    [][ShutdownStep =>
          LET calls == fx'
              threads == Positions(calls, ThreadCalls)
              sound == Positions(calls, {"sound.stop"})
              teardown == Positions(calls, TeardownCalls)
              kill == Positions(calls, {"os.kill"})
          IN  /\ Cardinality(sound) = 1
              /\ threads \cup sound \cup teardown \cup kill = 1..Len(calls)
              /\ \A i \in threads, j \in sound : i < j
              /\ \A i \in sound, j \in teardown \cup kill : i < j
              /\ \A i \in teardown, j \in kill : i < j
              /\ \A e \in m_cmd_threads :
                     /\ \E k \in threads : calls[k] = ThreadStopCall(e[2])
                     /\ m_stop'[e[2]]
              /\ m_cmd_threads' = {}
              /\ m_stream # 0 =>
                     \E i, j \in teardown :
                         calls[i] = "stream.stop" /\ calls[j] = "stream.close" /\ i < j
              /\ ptl_keyboard_listener =>
                     \E i \in teardown : calls[i] = "unhook.keyboard"
              /\ ydotoold # <<>> => Cardinality(kill) = 1
      ]_vars

\* shutdown while two threads are registered, the keyboard hotkey is armed
\* and the daemon runs: all four steps were issued.
C13_Witness ==
    /\ last.op = "shutdown"
    /\ Len(fx) = 10
    /\ \A w \in {1, 2} : \E k \in 1..4 : fx[k] = ThreadStopCall(w)
    /\ SubSeq(fx, 5, 10) = <<"sound.stop", "unhook.keyboard", "stream.stop",
                             "stream.close", "FinalResult", "os.kill">>

CallbackStep ==
    /\ last'.op = "listen_callback"
    /\ last' # last \/ fx' # fx \/ dispatches' # dispatches

\* The stop-word set in force at a call.
StopWords(configured) == IF configured = {} THEN DefaultIgnoredWords ELSE configured

\* C12: a finalized transcript of exactly one word that is in the stop-word
\* set does not reach check_commands and starts nothing; a finalized
\* transcript of two or more words always reaches check_commands, whatever
\* its words are.
C12_SingleStopWordSuppressed ==
    [][(CallbackStep /\ last'.arg.endpoint /\ recognizer # <<>>) =>
          LET transcript == last'.arg.final_text
              words == SplitWords(transcript)
          IN  /\ (Len(words) = 1 /\ Lower(words[1]) \in StopWords(last'.arg.configured))
                     => (dispatches' = dispatches /\ UNCHANGED runnerVars)
              /\ Len(words) >= 2
                     => (dispatches' = dispatches + 1 /\ detected'.result = transcript)
      ]_vars

\* "a" is a default stop-word and a phrase of the table; the callback got it
\* as a finalized transcript, and check_commands has not been called.
C12_Witness ==
    /\ last.op = "listen_callback"
    /\ last.arg = [endpoint |-> TRUE, final_text |-> <<"a">>, configured |-> {}]
    /\ \E k \in 1..Len(commands_list) : commands_list[k] = <<"a">>
    /\ fx = <<"AcceptWaveform", "Result">>
    /\ dispatches = 0

\* C15: listen_callback calls check_commands only for a block for which the
\* engine reported an endpoint and returned non-empty text; for a block
\* without an endpoint, and when there is no recognizer, it dispatches
\* nothing and changes none of the executor's fields.
C15_DispatchOnlyAtEndpoint ==
    [][CallbackStep =>
          /\ dispatches' # dispatches
                 => /\ last'.arg.endpoint
                    /\ last'.arg.final_text # <<>>
                    /\ recognizer # <<>>
          /\ (~last'.arg.endpoint \/ recognizer = <<>>)
                 => UNCHANGED <<tableVars, listenVars, runnerVars>>
      ]_vars

\* A block without an endpoint while the engine's text so far is "a b", a
\* phrase of the table: only AcceptWaveform was called, nothing dispatched.
C15_Witness ==
    /\ last.op = "listen_callback"
    /\ last.arg.final_text = <<"a", " ", "b">>
    /\ ~last.arg.endpoint
    /\ recognizer # <<>>
    /\ fx = <<"AcceptWaveform">>
    /\ dispatches = 0
    /\ \A t \in Threads : log[t] = <<>>

(***************************************************************************)
(* Claims about the command runner, under SpecCmd                          *)
(***************************************************************************)
CommandOf(c) == m_profile[1].commands[c]

\* C2: once stop() has been called on a CommandThread, it executes no more
\* of its sequence than the actions left in the iteration it was in, and it
\* does execute those before it finishes.
C2_StopTakesEffectAtIterationBoundary ==
    \A w \in Workers :
        stopAt[w] # <<>> =>
            /\ OwnCount(log, w) <= stopAt[w][1].ran + stopAt[w][1].left
            /\ wstate[w] = "finished" =>
                   OwnCount(log, w) = stopAt[w][1].ran + stopAt[w][1].left

\* A thread of "a,b" with repeat 2, stopped by another thread after the
\* first action of its first iteration, has finished after the second.
C2_Witness ==
    \E w \in Workers :
        /\ spawned[w] # <<>> /\ spawned[w][1].cmd = 1
        /\ CommandOf(1).repeat = 2
        /\ stopAt[w] = <<[ran |-> 1, left |-> 1]>>
        /\ wstate[w] = "finished"
        /\ OwnCount(log, w) = 2

\* C3: every entry of the running-command registry is stored under the name
\* of the command its thread runs.
C3_RegisteredUnderCommandName ==
    \A e \in m_cmd_threads : e[1] = CommandOf(spawned[e[2]][1].cmd).name

\* The actions thread 0 has executed since the last check_commands call.
AudioRun == SubSeq(log[0], detected.start + 1, Len(log[0]))

SyncWithoutVoice(c) ==
    /\ c # 0
    /\ ~CommandOf(c).async
    /\ \A k \in 1..Len(CommandOf(c).actions) : CommandOf(c).actions[k].kind # "voice"

\* The sequence 1..n repeated times over.
Repeated(n, times) == [i \in 1..(n * times) |-> ((i - 1) % n) + 1]

\* C7: a synchronous command without a nested voice command runs on the
\* dispatching thread: what that thread has executed since the dispatch is
\* a prefix of the action sequence repeated max(repeat, 1) times, all of it
\* once the dispatch has returned, and no CommandThread is created for it.
C7_SyncRunsInlineMaxRepeatTimes ==
    SyncWithoutVoice(detected.cmd) =>
        LET c == detected.cmd
            times == IF CommandOf(c).repeat > 1 THEN CommandOf(c).repeat ELSE 1
            expected == Repeated(Len(CommandOf(c).actions), times)
        IN  /\ Len(AudioRun) <= Len(expected)
            /\ \A i \in 1..Len(AudioRun) :
                   AudioRun[i] = [cmd |-> c, idx |-> expected[i], depth |-> 1]
            /\ cstack[0] = <<>> => Len(AudioRun) = Len(expected)
            /\ \A w \in Workers : spawned[w] # <<>> => spawned[w][1].cmd # c

\* "a,b", synchronous with repeat 2, has run its two actions twice and the
\* dispatch has returned.
C7_Witness ==
    /\ detected.cmd = 1
    /\ SyncWithoutVoice(1)
    /\ CommandOf(1).repeat = 2
    /\ cstack[0] = <<>>
    /\ Len(AudioRun) = 4

\* C8: a command with repeat <= 0 runs its sequence exactly once when it is
\* not cancelled, synchronous (the dispatch has returned) or asynchronous
\* (its thread has finished and was never stopped).
C8_NonPositiveRepeatRunsOnce ==
    /\ (SyncWithoutVoice(detected.cmd) /\ CommandOf(detected.cmd).repeat <= 0
            /\ cstack[0] = <<>>)
           => Len(AudioRun) = Len(CommandOf(detected.cmd).actions)
    /\ \A w \in Workers :
           (/\ spawned[w] # <<>>
            /\ CommandOf(spawned[w][1].cmd).repeat <= 0
            /\ wstate[w] = "finished"
            /\ ~m_stop[w])
               => OwnCount(log, w) = Len(CommandOf(spawned[w][1].cmd).actions)

\* Thread t executes an action in this step: the action, as a one-element
\* list, or the empty list.
Executed(t) ==
    IF Len(log'[t]) = Len(log[t]) + 1
    THEN LET e == log'[t][Len(log'[t])]
         IN  <<[action |-> CommandOf(e.cmd).actions[e.idx], idx |-> e.idx,
                of |-> Len(CommandOf(e.cmd).actions), depth |-> e.depth]>>
    ELSE <<>>

\* After executing its action x thread t goes on: to the next action of the
\* sequence, or to the loop test after the last.
GoesOn(t, x) ==
    /\ Len(cstack'[t]) = x.depth
    /\ cstack'[t][x.depth].pos = IF x.idx < x.of THEN x.idx + 1 ELSE 0

\* C18: a stop action (or stop request) for a name that has no entry in
\* m_cmd_threads raises nothing (the thread goes on with its sequence) and
\* leaves the registry and every thread's m_stop as they were.
C18_StopOfUnregisteredIsNoOp ==
    [][\A t \in Threads :
          (/\ Executed(t) # <<>>
           /\ Executed(t)[1].action.kind = "stop"
           /\ \A e \in m_cmd_threads : e[1] # Executed(t)[1].action.arg)
              => /\ m_cmd_threads' = m_cmd_threads
                 /\ m_stop' = m_stop
                 /\ wstate' = wstate
                 /\ GoesOn(t, Executed(t)[1])
      ]_vars

\* "s" has stopped the name "a,b" while the thread of "a,b" was registered
\* under the phrase "a": that thread is still registered and not stopped.
C18_Witness ==
    /\ log[0] # <<>>
    /\ log[0][Len(log[0])] = [cmd |-> 2, idx |-> 1, depth |-> 1]
    /\ CommandOf(2).actions[1] = [kind |-> "stop", arg |-> <<"a", ",", "b">>]
    /\ \E e \in m_cmd_threads : e[1] = <<"a">> /\ ~m_stop[e[2]]

(***************************************************************************)
(* Claims about the actions, under SpecAct                                 *)
(***************************************************************************)
\* The action of an entry of the log.
ActionOf(e) == m_profile[1].commands[e.cmd].actions[e.idx]

\* The external-command actions thread t has executed, in order.
ExternalsRun(t) == SelectSeq(log[t], LAMBDA e : ActionOf(e).kind = "external")

\* The processes thread t has spawned, in order.
ProcessCalls(t) == SelectSeq(effects[t], LAMBDA c : c.call \in {"Popen", "run"})

\* C17: an external-command action spawns its command and, when its own
\* async flag is set, does not wait for the process (Popen); when the flag
\* is clear it waits for the process to exit (subprocess.run); whether the
\* command it belongs to is asynchronous makes no difference.
C17_ExternalAsyncFlagHonoured ==
    \A t \in Threads :
        /\ Len(ProcessCalls(t)) = Len(ExternalsRun(t))
        /\ \A k \in 1..Len(ExternalsRun(t)) :
               LET action == ActionOf(ExternalsRun(t)[k])
               IN  ProcessCalls(t)[k] =
                       [call |-> IF action.async THEN "Popen" ELSE "run",
                        cmd |-> action.arg]

\* C20: an action whose name do_action does not know changes nothing: no
\* device or process call, no change of the registry, of a stop flag, of a
\* thread or of the executor's fields; the thread that met it goes on to
\* the next action of the sequence.
C20_UnknownActionIsNoOp ==
    [][\A t \in Threads :
          (Executed(t) # <<>> /\ Executed(t)[1].action.kind \notin KnownActions)
              => /\ effects' = effects
                 /\ m_cmd_threads' = m_cmd_threads
                 /\ m_stop' = m_stop
                 /\ wstate' = wstate
                 /\ spawned' = spawned
                 /\ \A u \in Threads \ {t} : cstack'[u] = cstack[u]
                 /\ GoesOn(t, Executed(t)[1])
                 /\ UNCHANGED <<tableVars, listenVars, historyVars>>
      ]_vars

\* A CommandThread has run key, unknown action, pause, key: the two keys
\* and the pause took effect, in that order, and the thread has finished.
C20_Witness ==
    \E w \in Workers :
        /\ wstate[w] = "finished"
        /\ Len(log[w]) = 4
        /\ ActionOf(log[w][2]).kind = "unknown action"
        /\ effects[w] = <<[call |-> "press_key", cmd |-> <<"1">>],
                          [call |-> "sleep", cmd |-> <<"1">>],
                          [call |-> "press_key", cmd |-> <<"2">>]>>

\* The thread that started worker w has not yet stored it in m_cmd_threads.
Registering(w) ==
    \E t \in Threads : \E k \in 1..Len(cstack[t]) :
        cstack[t][k].kind = "register" /\ cstack[t][k].worker = w

\* C26: every CommandThread that is running, has not been told to stop and
\* whose registration has been stored has an entry of m_cmd_threads that
\* refers to it, also after the same asynchronous command was dispatched
\* again and after the thread stopped its own name before it was registered.
C26_RunningWorkerIsRegistered ==
    \A w \in Workers :
        (wstate[w] = "running" /\ ~m_stop[w] /\ ~Registering(w))
            => \E e \in m_cmd_threads : e[2] = w

(***************************************************************************)
(* Claims about the listening controller, under SpecListen                 *)
(***************************************************************************)
ListeningStates == {"Continuous", "PushToTalkArmed", "PushToTalkCapturing"}

\* The calls of a handler tore the capture down before any restart: a
\* stream.close is among them, and no stream.start comes before it.
ReachedStopped(calls) ==
    \E k \in 1..Len(calls) :
        /\ calls[k] = "stream.close"
        /\ \A j \in 1..(k - 1) : calls[j] # "stream.start"

\* C1: from Continuous, PushToTalkArmed or PushToTalkCapturing, set_profile
\* with a non-null profile tears the capture down (Stopped) and then ends in
\* the listening state it started from.
C1_SwapReturnsToPriorState ==
    (last = [op |-> "set_profile", arg |-> "profile"] /\ prior.state \in ListeningStates)
        => (ReachedStopped(fx) /\ ListeningState = prior.state)

DownOps == {"key_down", "button_down"}

UpOps == {"key_up", "button_up"}

\* C5: in push-to-talk, a hotkey down while the stream is not capturing
\* starts it exactly once; a hotkey up while it is capturing sleeps the drain
\* delay, then stops the stream, then takes the recognizer's result; a down
\* while capturing and an up while not capturing make no call and change
\* nothing.
C5_PushToTalkHotkey ==
    (last.op \in DownOps \cup UpOps /\ last.arg = "hotkey") =>
        /\ (last.op \in DownOps /\ ~prior.active) =>
               /\ fx = <<"stream.start">>
               /\ StreamActive(Executor)
        /\ (last.op \in UpOps /\ prior.active) =>
               /\ fx = <<"sleep", "stream.stop", "Result">>
               /\ ~StreamActive(Executor)
        /\ (last.op \in DownOps <=> prior.active) =>
               /\ fx = <<>>
               /\ StreamActive(Executor) = prior.active
               /\ ListeningState = prior.state

C5_Witness ==
    /\ last = [op |-> "key_up", arg |-> "hotkey"]
    /\ prior.state = "PushToTalkCapturing"
    /\ fx = <<"sleep", "stream.stop", "Result">>
    /\ ListeningState = "PushToTalkArmed"

\* C6: after set_enable_listening(False) the executor is Stopped: no stream
\* is open or active, no hotkey listener is installed, and if there was
\* anything to tear down the final recognition result was forced.
C6_DisableLeavesStopped ==
    (last.op = "disable") =>
        /\ ListeningState = "Stopped"
        /\ (prior.state # "Stopped" => \E k \in 1..Len(fx) : fx[k] = "FinalResult")

\* C19: while the last set_language call was one with an unsupported
\* language, set_enable_listening(True) leaves the executor Stopped, with no
\* capture stream, whether or not a recognizer had been configured before.
C19_UnsupportedLanguageDisables ==
    (language = "unsupported" /\ last.op = "enable")
        => (ListeningState = "Stopped" /\ m_stream = 0)

\* The capture streams that are open, capturing or not.
OpenStreams == {i \in StreamIds : streams[i] # "unused"}

\* C27: at most one capture stream is open, and it is the one m_stream
\* refers to: no stream is left open or capturing after the executor has
\* replaced or dropped its reference to it.
C27_SingleStream ==
    /\ Cardinality(OpenStreams) <= 1
    /\ OpenStreams \subseteq {m_stream}

\* C29: while grammar_supported is true there is a recognizer, its engine
\* takes grammars, and the grammar it holds is the current command table.
C29_FlagMeansTableApplied ==
    grammar_supported =>
        /\ recognizer # <<>>
        /\ recognizer[1].cap = "grammar"
        /\ recognizer[1].grammar = <<commands_list>>

(***************************************************************************)
(* Claims about the table, under SpecProfile and SpecTable                 *)
(***************************************************************************)
\* The phrases in the order set_profile registers them, each with the
\* command that registers it.
RECURSIVE Registrations(_, _)
Registrations(commands, c) ==
    IF c > Len(commands) THEN <<>>
    ELSE LET ps == NamePhrases(commands[c].name)
         IN  [k \in 1..Len(ps) |-> [phrase |-> ps[k], owner |-> c]]
                 \o Registrations(commands, c + 1)

\* The registration that should win for a transcript: a phrase contained in
\* it, no longer one contained in it, the first registered of that length.
Winner(commands, result_string) ==
    LET reg == Registrations(commands, 1)
        hits == {k \in 1..Len(reg) : IsSubstring(reg[k].phrase, result_string)}
    IN  IF hits = {} THEN <<>>
        ELSE LET best == CHOOSE k \in hits : \A j \in hits :
                             \/ Len(reg[j].phrase) < Len(reg[k].phrase)
                             \/ Len(reg[j].phrase) = Len(reg[k].phrase) /\ k <= j
             IN  <<reg[best]>>

\* C4: check_commands detects the longest table phrase contained in the
\* transcript, the first registered among those of equal length, and runs
\* the command that owns it; it runs nothing when no phrase is contained.
C4_LongestFirstRegisteredWins ==
    (dispatches > 0) =>
        LET win == Winner(m_profile[1].commands, detected.result)
        IN  IF win = <<>>
            THEN detected.cmd = 0 /\ detected.command = <<>> /\ log[0] = <<>>
            ELSE /\ detected.command = <<win[1].phrase>>
                 /\ detected.cmd = win[1].owner
                 /\ \A i \in 1..Len(log[0]) : log[0][i].cmd = win[1].owner
                 /\ cstack[0] = <<>> => Len(AudioRun) = 1

\* Commands "a" and "b,ab", transcript "bab": "ab" is detected, not the
\* shorter "a" and "b" registered before it, and command 2 has run.
C4_Witness ==
    /\ Len(m_profile[1].commands) = 2
    /\ m_profile[1].commands[1].name = <<"a">>
    /\ m_profile[1].commands[2].name = <<"b", ",", "a", "b">>
    /\ detected.result = <<"b", "a", "b">>
    /\ detected.command = <<(<<"a", "b">>)>>
    /\ detected.cmd = 2
    /\ cstack[0] = <<>>
    /\ log[0] = <<[cmd |-> 2, idx |-> 1, depth |-> 1]>>

\* C16: one call of check_commands starts at most one command: one
\* activation on the calling thread (the inline run, or the registration of
\* the thread it started) and at most one new CommandThread.
C16_OneCommandPerTranscript ==
    [][dispatches' = dispatches + 1 =>
          /\ Len(cstack'[0]) <= 1
          /\ Cardinality({w \in Workers : spawned'[w] # spawned[w]}) <= 1
          /\ Cardinality({w \in Workers : cstack'[w] # cstack[w]}) <= 1
      ]_vars

\* The transcript contains three phrases of the table or more, the dispatch
\* has returned, and one action has run.
C16_Witness ==
    /\ dispatches = 1
    /\ Cardinality({k \in 1..Len(commands_list) :
                        IsSubstring(commands_list[k], detected.result)}) >= 3
    /\ cstack[0] = <<>>
    /\ Len(log[0]) = 1

IsLowerCase(s) == \A i \in 1..Len(s) : s[i] \notin {"A", "B"}

SingleSpaced(s) ==
    /\ s # <<>> => ~IsSpace(s[1]) /\ ~IsSpace(s[Len(s)])
    /\ \A i \in 1..(Len(s) - 1) : ~(IsSpace(s[i]) /\ IsSpace(s[i + 1]))

\* C10: every phrase set_profile places in the command table is lower-case,
\* has no leading, trailing or doubled space, and is not empty.
C10_TablePhrasesNormalized ==
    \A k \in 1..Len(commands_list) :
        /\ IsLowerCase(commands_list[k])
        /\ SingleSpaced(commands_list[k])
        /\ commands_list[k] # <<>>

\* C11: set_profile called again with the same profile leaves the command
\* table as the first call built it: the same phrases in the same order.
C11_RebuildYieldsSameTable ==
    [][epc = "once" => commands_list' = commands_list]_vars

\* The name "a,a a" loaded twice: the table is "a a", "a", the longer
\* phrase first, and not the four phrases of two builds.
C11_Witness ==
    /\ epc = "twice"
    /\ text = <<"a", ",", "a", " ", "a">>
    /\ commands_list = << <<"a", " ", "a">>, <<"a">> >>

\* C25: after set_profile every phrase of the command table resolves through
\* _get_command_for_executing to a command of the active profile, one that
\* has the phrase among the phrases of its name; after set_profile(None)
\* there is no active profile, the table is empty and check_commands detects
\* nothing in any transcript.
C25_TableConsistentWithProfile ==
    /\ \A k \in 1..Len(commands_list) :
           LET c == _get_command_for_executing(m_profile, commands_list[k])
           IN  /\ c # 0
               /\ \E j \in 1..Len(NamePhrases(m_profile[1].commands[c].name)) :
                      NamePhrases(m_profile[1].commands[c].name)[j] = commands_list[k]
    /\ (last = [op |-> "set_profile", arg |-> "None"]) =>
           /\ m_profile = <<>>
           /\ commands_list = <<>>
           /\ \A r \in {text, <<"a">>, <<"b">>} : Detections(commands_list, r) = <<>>

\* The profile of the command "A [a]" was replaced by the profile of "b":
\* the table holds "b" alone.
C25_Witness ==
    /\ epc = "swapped"
    /\ text = <<"A", " ", "[", "a", "]">>
    /\ commands_list = << <<"b">> >>
    /\ m_profile # <<>> /\ m_profile[1].commands[1].name = <<"b">>

(***************************************************************************)
(* Claims about _expand_optional_brackets, under SpecExpand                *)
(***************************************************************************)
\* The phrases a name part stands for: for every choice of omission or one
\* alternative per bracket, the fixed text and the chosen alternatives
\* concatenated, whitespace collapsed, empty results left out.
PhrasesOf(s) ==
    LET segs == Segments(s)
        combos == Product(ChoiceLists(segs))
    IN  {NormalizeSpace(Concat(PartsOf(segs, combos[k], 1))) : k \in 1..Len(combos)}
            \ {<<>>}

\* C9: _expand_optional_brackets returns exactly those phrases, each once.
C9_ExpandYieldsExactlyThePhrases ==
    (epc = "done") =>
        /\ {variations[k] : k \in 1..Len(variations)} = PhrasesOf(text)
        /\ \A i, j \in 1..Len(variations) : variations[i] = variations[j] => i = j

(***************************************************************************)
(* Specification SpecExpand: _expand_optional_brackets applied to every    *)
(* well-formed name part up to MaxTextLen characters.                      *)
(***************************************************************************)
MaxTextLen == 6

ExpandChars == {"a", " ", ",", "[", "]"}

\* Brackets balanced and not nested.
RECURSIVE WellFormedFrom(_, _, _)
WellFormedFrom(s, i, open) ==
    IF i > Len(s) THEN ~open
    ELSE IF s[i] = "[" THEN ~open /\ WellFormedFrom(s, i + 1, TRUE)
    ELSE IF s[i] = "]" THEN open /\ WellFormedFrom(s, i + 1, FALSE)
    ELSE WellFormedFrom(s, i + 1, open)

WellFormed(s) == WellFormedFrom(s, 1, FALSE)

\* set_profile passes parts stripped of outer whitespace; the inputs are
\* those with at least one letter.
ExpandInputs ==
    {s \in StringsOver(ExpandChars, MaxTextLen) :
         /\ WellFormed(s)
         /\ Strip(s) = s
         /\ \E i \in 1..Len(s) : s[i] = "a"}

InitExpand ==
    /\ text \in ExpandInputs
    /\ variations = <<>>
    /\ epc = "init"
    /\ InitExecutor
    /\ InitRunner
    /\ NoCalls
    /\ NoEditor

Expand ==
    /\ epc = "init"
    /\ variations' = _expand_optional_brackets(text)
    /\ epc' = "done"
    /\ UNCHANGED <<callVars, wnd, text, tableVars, listenVars, historyVars, runnerVars>>

NextExpand == Expand

SpecExpand == InitExpand /\ [][NextExpand]_vars

=============================================================================
